---------------------------- MODULE Spec2Model ----------------------------
(***************************************************************************)
(* A model of @vamship/aws-dynamodb: the Entity base class                 *)
(* (src/src/entity.js, lines 141-445) and the SimpleEntity CRUD protocol   *)
(* (src/unnamed/part_004, the module index.js loads as ./simple-entity)    *)
(* running against a DynamoDB table through the @awspilot/dynamodb client. *)
(*                                                                         *)
(* JavaScript values are strings: a JS string is itself, a JS number n is  *)
(* "#n", undefined is "@undefined", and any value of another type (a       *)
(* boolean, an array, ...) is "@other".  A caller's argument that should   *)
(* be a mapping is [obj |-> is it an object, m |-> its own properties].    *)
(***************************************************************************)
EXTENDS Integers, Sequences, FiniteSets, TLC

VARIABLES
    config,     \* the entity instance: rangeKeyName, copiers, _username
    table,      \* the DynamoDB table: identity -> item or NoItem
    now,        \* the reading Date.now() gives
    generated,  \* how many ids shortid has generated
    calls,      \* the CRUD calls in progress, one per caller
    versions    \* history: every __version an identity has held

vars == <<config, table, now, generated, calls, versions>>

-----------------------------------------------------------------------------
(* Bounds of the model *)

MaxTokens == 2
MaxClock == 1

-----------------------------------------------------------------------------
(* JavaScript values *)

Undefined == "@undefined"
OtherType == "@other"
Numbers == {"#-1", "#0", "#1", "#2"}
NonStrings == Numbers \cup {Undefined, OtherType}

NumberValue(v) ==
    CASE v = "#-1" -> -1 [] v = "#0" -> 0 [] v = "#1" -> 1 [] v = "#2" -> 2

\* argValidator.checkString(arg): a string of length >= 1
checkString(v) == v \notin NonStrings /\ v # ""

\* argValidator.checkNumber(arg): a number >= 1
checkNumber(v) == v \in Numbers /\ NumberValue(v) >= 1

\* argValidator.checkObject(arg)
checkObject(x) == x.obj

EmptyObj == [f \in {} |-> ""]
Obj(m) == [obj |-> TRUE, m |-> m]
NotAnObject == [obj |-> FALSE, m |-> EmptyObj]

\* obj[name], undefined when obj has no such property
Prop(m, name) == IF name \in DOMAIN m THEN m[name] ELSE Undefined

\* Object.assign({}, a, b): the properties of b override those of a
ObjectAssign(a, b) ==
    [f \in DOMAIN a \cup DOMAIN b |-> IF f \in DOMAIN b THEN b[f] ELSE a[f]]

\* shortid.generate() that gives the same id every time
TokenOf_Repeats(n) == "v1"

\* shortid.generate(): the n-th id generated; ids are unique
TokenOf(n) == "v" \o ToString(n)

\* Date.now() as a stored attribute value
DateOf(t) == "t" \o ToString(t)

-----------------------------------------------------------------------------
(* The entity classes a caller may define *)


\* new SelectiveCopy([])
DEFAULT_COPIER == {}

\* Entity constructor: this._username
ConstructUsername(username) ==
    IF ~checkString(username) THEN "SYSTEM" ELSE username

Configs ==
    { \* a range-key entity with logical deletes, as delete()'s documentation
      \* advises: __status may be updated
      [hashKeyName |-> "accountId", rangeKeyName |-> "entityId",
       updateCopier |-> {"tag", "__status"},
       deleteCopier |-> {"tag", "count"},
       options |-> [username |-> Undefined],
       username |-> ConstructUsername(Undefined)],
      \* a hash-key-only entity, keyed by a number, with README's copiers
      \* (count may be updated, tag may be deleted) and a configured username
      [hashKeyName |-> "entityId", rangeKeyName |-> Undefined,
       updateCopier |-> {"count"},
       deleteCopier |-> {"tag"},
       options |-> [username |-> "admin"],
       username |-> ConstructUsername("admin")] }

-----------------------------------------------------------------------------
(* Errors *)

NoError == [type |-> "none", message |-> ""]
ArgError(message) == [type |-> "ArgError", message |-> message]
DuplicateRecordError == [type |-> "DuplicateRecordError", message |-> ""]
ConcurrencyControlError == [type |-> "ConcurrencyControlError", message |-> ""]

\* an error the DynamoDB client calls back with: its code, kept as it is
StoreError(code) == [type |-> "StoreError", message |-> code]

ConditionalCheckFailed == "ConditionalCheckFailedException"
\* the other failures of a request: throttling, permissions, the network
OtherStoreCodes == {"ProvisionedThroughputExceededException"}

-----------------------------------------------------------------------------
(* Entity: validation and parameter extraction (src/src/entity.js) *)

\* _getHashKey() that takes every string and every number
GetHashKey_AnyStringOrNumber(cfg, keys) ==
    LET hashKey == Prop(keys, cfg.hashKeyName)
    IN  IF hashKey \in {Undefined, OtherType}
        THEN [err |-> ArgError("Invalid hash key (keys." \o cfg.hashKeyName
                               \o ")"),
              value |-> Undefined]
        ELSE [err |-> NoError, value |-> hashKey]

\* Entity._getHashKey(keys)
GetHashKey(cfg, keys) ==
    LET hashKey == Prop(keys, cfg.hashKeyName)
        isValidString == checkString(hashKey)
        isValidNumber == checkNumber(hashKey)
    IN  IF ~isValidString /\ ~isValidNumber
        THEN [err |-> ArgError("Invalid hash key (keys." \o cfg.hashKeyName
                               \o ")"),
              value |-> Undefined]
        ELSE [err |-> NoError, value |-> hashKey]

\* _getRangeKey() that validates nothing when allowUndefined is set
GetRangeKey_AllowsAnything(cfg, keys, allowUndefined) ==
    IF cfg.rangeKeyName # Undefined
    THEN LET rangeKey == Prop(keys, cfg.rangeKeyName)
         IN  IF allowUndefined
             THEN [err |-> NoError, value |-> rangeKey]
             ELSE IF ~checkString(rangeKey) /\ ~checkNumber(rangeKey)
             THEN [err |-> ArgError("Invalid range key (keys."
                                    \o cfg.rangeKeyName \o ")"),
                   value |-> Undefined]
             ELSE [err |-> NoError, value |-> rangeKey]
    ELSE [err |-> NoError, value |-> Undefined]

\* _getRangeKey() that lets every call go without a range key
GetRangeKey_AlwaysAllows(cfg, keys, allowUndefined) ==
    IF cfg.rangeKeyName # Undefined
    THEN LET rangeKey == Prop(keys, cfg.rangeKeyName)
         IN  IF rangeKey = Undefined
             THEN [err |-> NoError, value |-> rangeKey]
             ELSE IF ~checkString(rangeKey) /\ ~checkNumber(rangeKey)
             THEN [err |-> ArgError("Invalid range key (keys."
                                    \o cfg.rangeKeyName \o ")"),
                   value |-> Undefined]
             ELSE [err |-> NoError, value |-> rangeKey]
    ELSE [err |-> NoError, value |-> Undefined]

\* Entity._getRangeKey(keys, allowUndefined)
GetRangeKey(cfg, keys, allowUndefined) ==
    IF cfg.rangeKeyName # Undefined
    THEN LET rangeKey == Prop(keys, cfg.rangeKeyName)
         IN  IF rangeKey = Undefined /\ allowUndefined
             THEN [err |-> NoError, value |-> rangeKey]
             ELSE IF ~checkString(rangeKey) /\ ~checkNumber(rangeKey)
             THEN [err |-> ArgError("Invalid range key (keys."
                                    \o cfg.rangeKeyName \o ")"),
                   value |-> Undefined]
             ELSE [err |-> NoError, value |-> rangeKey]
    ELSE [err |-> NoError, value |-> Undefined]

\* _getUsername() that ignores the audit argument
GetUsername_IgnoresAudit(cfg, audit) == cfg.username

\* Entity._getUsername(audit)
GetUsername(cfg, audit) ==
    IF ~checkObject(audit) \/ ~checkString(Prop(audit.m, "username"))
    THEN cfg.username
    ELSE audit.m["username"]

\* Entity._initParams(keys, operation, audit, rangeKeyOptional); the child
\* logger it derives holds no state of the protocol
InitParams(cfg, keys, audit, rangeKeyOptional) ==
    IF ~checkObject(keys)
    THEN [err |-> ArgError("Invalid keys (arg #1)"), hashKey |-> Undefined,
          rangeKey |-> Undefined, username |-> Undefined]
    ELSE LET h == GetHashKey(cfg, keys.m)
             r == GetRangeKey(cfg, keys.m, rangeKeyOptional)
         IN  IF h.err # NoError
             THEN [err |-> h.err, hashKey |-> Undefined,
                   rangeKey |-> Undefined, username |-> Undefined]
             ELSE IF r.err # NoError
             THEN [err |-> r.err, hashKey |-> Undefined,
                   rangeKey |-> Undefined, username |-> Undefined]
             ELSE [err |-> NoError, hashKey |-> h.value, rangeKey |-> r.value,
                   username |-> GetUsername(cfg, audit)]

\* a request that resume() was not called on
NoResume == [f \in {} |-> ""]

\* Entity._initClient(hashKey, rangeKey): a request on the entity's table,
\* with a where-filter for each argument that is defined
InitClient(hashKey, rangeKey) ==
    [action |-> "none",
     where |-> [hash |-> hashKey, range |-> rangeKey],
     cond |-> EmptyObj,       \* if(field).eq(value) / having(field).eq(value)
     payload |-> EmptyObj,    \* the attributes of insert() and update()
     resume |-> NoResume,     \* resume(token): the key to start after
     limit |-> Undefined]     \* limit(count)

\* client.if(field).eq(value), client.having(field).eq(value)
ClientIf(client, field, value) ==
    [client EXCEPT !.cond = ObjectAssign(@, [f \in {field} |-> value])]

-----------------------------------------------------------------------------
(* The DynamoDB table, as the client's requests act on it *)

\* how DynamoDB writes a number in an attribute value, and reads it
NumberText(v) ==
    CASE v = "#-1" -> "-1" [] v = "#0" -> "0" [] v = "#1" -> "1"
      [] v = "#2" -> "2"

TextNumber(t) ==
    CASE t = "-1" -> "#-1" [] t = "0" -> "#0" [] t = "1" -> "#1"
      [] t = "2" -> "#2"

\* AWS.DynamoDB.Converter.input(value): {N: text} of a number, {S: value} of
\* a string, {M: ...} of an object, attribute by attribute
ConverterInput(v) ==
    IF v \in Numbers THEN [type |-> "N", value |-> NumberText(v)]
    ELSE [type |-> "S", value |-> v]

ConverterInputM(m) == [f \in DOMAIN m |-> ConverterInput(m[f])]

\* the value an attribute value stands for
ConverterOutput(a) ==
    IF a.type = "N" THEN TextNumber(a.value) ELSE a.value

StringKeys == {"a", "b"}
NumberKeys == {"#1", "#2"}
HashVals == StringKeys \cup NumberKeys
RangeVals == NumberKeys
IdSpace == HashVals \X (RangeVals \cup {Undefined})

\* no item: also what get() calls back with when the key holds nothing
NoItem == EmptyObj

\* client.del(): the marker that removes an attribute in update()
DelMarker == "@del"

\* the identity an item is stored under, by the table's key schema
KeyOf(cfg, item) ==
    <<Prop(item, cfg.hashKeyName),
      IF cfg.rangeKeyName = Undefined THEN Undefined
      ELSE Prop(item, cfg.rangeKeyName)>>

\* a condition of the request holds of the item: an attribute the item does
\* not have equals nothing
CondHolds(item, cond) ==
    \A f \in DOMAIN cond : f \in DOMAIN item /\ item[f] = cond[f]

\* an update that puts the attributes in the place of the item
ApplyUpdate_Replaces(item, attrs) ==
    [f \in {g \in DOMAIN attrs : attrs[g] # DelMarker} |-> attrs[f]]

\* update()'s effect on an item: SET each attribute, REMOVE each one whose
\* value is the del() marker
ApplyUpdate(item, attrs) ==
    LET removed == {f \in DOMAIN attrs : attrs[f] = DelMarker}
        merged == ObjectAssign(item, attrs)
    IN  [f \in DOMAIN merged \ removed |-> merged[f]]

OkResponse(data) == [err |-> "", data |-> data]
ErrResponse(code) == [err |-> code, data |-> EmptyObj]
NoResponse == [err |-> "@none", data |-> EmptyObj]

\* the range keys in the order query() reads them
SortRange(S) ==
    CHOOSE s \in [1..Cardinality(S) -> S] :
        \A i, j \in 1..Cardinality(S) :
            i < j => NumberValue(s[i]) < NumberValue(s[j])

RECURSIVE FilterSeq(_, _)
\* the items of a page that satisfy the filter of having(), in their order
FilterSeq(items, cond) ==
    IF items = <<>> THEN <<>>
    ELSE IF CondHolds(Head(items), cond)
         THEN <<Head(items)>> \o FilterSeq(Tail(items), cond)
         ELSE FilterSeq(Tail(items), cond)

\* insert() that replaces an item that is not active
StoreInsert_OverInactive(cfg, tbl, req) ==
    LET id == KeyOf(cfg, req.payload)
    IN  IF tbl[id] # NoItem /\ Prop(tbl[id], "__status") = "active"
        THEN [table |-> tbl, response |-> ErrResponse(ConditionalCheckFailed)]
        ELSE [table |-> [tbl EXCEPT ![id] = req.payload],
              response |-> OkResponse(EmptyObj)]

\* client.insert(payload): puts the item unless its key already holds one
StoreInsert(cfg, tbl, req) ==
    LET id == KeyOf(cfg, req.payload)
    IN  IF tbl[id] # NoItem
        THEN [table |-> tbl, response |-> ErrResponse(ConditionalCheckFailed)]
        ELSE [table |-> [tbl EXCEPT ![id] = req.payload],
              response |-> OkResponse(EmptyObj)]

\* client.get(): reads the item of the key; GetItem takes no condition, so
\* the filters set with if() do not apply to it
StoreGet(tbl, req) ==
    [table |-> tbl,
     response |-> OkResponse(tbl[<<req.where.hash, req.where.range>>])]

\* client.query(): the items of the hash key in range key order, after the
\* resume key, at most limit of them, and of these the ones having() keeps
StoreQuery(cfg, tbl, req) ==
    LET ranges == IF cfg.rangeKeyName = Undefined THEN <<Undefined>>
                  ELSE SortRange(RangeVals)
        after(r) == req.resume = NoResume
                    \/ NumberValue(r)
                           > NumberValue(ConverterOutput(
                                 req.resume[cfg.rangeKeyName]))
        present == SelectSeq(ranges,
                       LAMBDA r : tbl[<<req.where.hash, r>>] # NoItem
                                  /\ after(r))
        read == IF req.limit = Undefined THEN present
                ELSE SubSeq(present, 1,
                         IF Len(present) < NumberValue(req.limit)
                         THEN Len(present) ELSE NumberValue(req.limit))
        page == [i \in 1..Len(read) |-> tbl[<<req.where.hash, read[i]>>]]
    IN  [table |-> tbl, response |-> OkResponse(FilterSeq(page, req.cond))]

\* update() that puts the attributes under a key that holds no item
StoreUpdate_Upserts(tbl, req) ==
    LET id == <<req.where.hash, req.where.range>>
    IN  IF tbl[id] = NoItem \/ CondHolds(tbl[id], req.cond)
        THEN [table |-> [tbl EXCEPT ![id] = ApplyUpdate(@, req.payload)],
              response |-> OkResponse(tbl[id])]
        ELSE [table |-> tbl, response |-> ErrResponse(ConditionalCheckFailed)]

\* client.update(attrs): changes the item of the key if the conditions set
\* with if() hold of it, and calls back with the old item (ALL_OLD)
StoreUpdate(tbl, req) ==
    LET id == <<req.where.hash, req.where.range>>
    IN  IF tbl[id] # NoItem /\ CondHolds(tbl[id], req.cond)
        THEN [table |-> [tbl EXCEPT ![id] = ApplyUpdate(@, req.payload)],
              response |-> OkResponse(tbl[id])]
        ELSE [table |-> tbl, response |-> ErrResponse(ConditionalCheckFailed)]

\* client.delete(): removes the item of the key if the conditions hold of it
StoreDelete(tbl, req) ==
    LET id == <<req.where.hash, req.where.range>>
    IN  IF tbl[id] # NoItem /\ CondHolds(tbl[id], req.cond)
        THEN [table |-> [tbl EXCEPT ![id] = NoItem],
              response |-> OkResponse(EmptyObj)]
        ELSE [table |-> tbl, response |-> ErrResponse(ConditionalCheckFailed)]

\* what the table does with one request
Evaluate(cfg, tbl, req) ==
    CASE req.action = "insert" -> StoreInsert(cfg, tbl, req)
      [] req.action = "get" -> StoreGet(tbl, req)
      [] req.action = "query" -> StoreQuery(cfg, tbl, req)
      [] req.action = "update" -> StoreUpdate(tbl, req)
      [] req.action = "delete" -> StoreDelete(tbl, req)

-----------------------------------------------------------------------------
(* SimpleEntity: the requests its operations build (src/unnamed/part_004) *)

\* list(): Converter.input({[hashKeyName]: hashKey,
\* [rangeKeyName]: rangeKey}).M
ResumeToken(hashKey, rangeKey) ==
    ConverterInputM([f \in {config.hashKeyName, config.rangeKeyName} |->
                        IF f = config.hashKeyName THEN hashKey
                        ELSE rangeKey])

\* SelectiveCopy.copy(src): the listed properties that src has
CopierCopy(properties, src) ==
    [f \in properties \cap DOMAIN src |-> src[f]]

\* create() that does not stamp __updatedBy
CreatePayload_NoUpdatedBy(props, keys, username, version, createDate, updateDate) ==
    ObjectAssign(ObjectAssign(props, keys),
        [__status |-> "active",
         __version |-> version,
         __createdBy |-> username,
         __createDate |-> createDate,
         __updateDate |-> updateDate])

\* create() that overlays keys by props
CreatePayload_KeysFirst(props, keys, username, version, createDate, updateDate) ==
    ObjectAssign(ObjectAssign(keys, props),
        [__status |-> "active",
         __version |-> version,
         __createdBy |-> username,
         __createDate |-> createDate,
         __updatedBy |-> username,
         __updateDate |-> updateDate])

\* create() that lets props and keys override the stamps
CreatePayload_PropsLast(props, keys, username, version, createDate, updateDate) ==
    ObjectAssign(
        [__status |-> "active",
         __version |-> version,
         __createdBy |-> username,
         __createDate |-> createDate,
         __updatedBy |-> username,
         __updateDate |-> updateDate],
        ObjectAssign(props, keys))

\* create(): the payload inserted
CreatePayload(props, keys, username, version, createDate, updateDate) ==
    ObjectAssign(ObjectAssign(props, keys),
        [__status |-> "active",
         __version |-> version,
         __createdBy |-> username,
         __createDate |-> createDate,
         __updatedBy |-> username,
         __updateDate |-> updateDate])

CreateRequest(payload) ==
    [InitClient(Undefined, Undefined) EXCEPT
        !.action = "insert", !.payload = payload]

\* lookup(): get() of the key, with if('__status').eq('active')
LookupRequest(hashKey, rangeKey) ==
    [ClientIf(InitClient(hashKey, rangeKey), "__status", "active")
        EXCEPT !.action = "get"]

\* list() without the filter on the status
ListRequest_Unfiltered(hashKey, rangeKey, count) ==
    LET resumed == IF rangeKey # Undefined
                   THEN [InitClient(hashKey, Undefined) EXCEPT
                            !.resume = ResumeToken(hashKey, rangeKey)]
                   ELSE InitClient(hashKey, Undefined)
        limited == IF checkNumber(count)
                   THEN [resumed EXCEPT !.limit = count]
                   ELSE resumed
    IN  [limited EXCEPT !.action = "query"]

\* list() that never resumes
ListRequest_NeverResumes(hashKey, rangeKey, count) ==
    LET filtered == ClientIf(InitClient(hashKey, Undefined),
                             "__status", "active")
        limited == IF checkNumber(count)
                   THEN [filtered EXCEPT !.limit = count]
                   ELSE filtered
    IN  [limited EXCEPT !.action = "query"]

\* list() that passes every number on as the limit
ListRequest_LimitsAnyNumber(hashKey, rangeKey, count) ==
    LET filtered == ClientIf(InitClient(hashKey, Undefined),
                             "__status", "active")
        resumed == IF rangeKey # Undefined
                   THEN [filtered EXCEPT
                            !.resume = ResumeToken(hashKey, rangeKey)]
                   ELSE filtered
        limited == IF count \in Numbers
                   THEN [resumed EXCEPT !.limit = count]
                   ELSE resumed
    IN  [limited EXCEPT !.action = "query"]

\* list(): query() of the hash key having('__status').eq('active'), resumed
\* after the range key when keys holds one, limited to count when count is a
\* number
ListRequest(hashKey, rangeKey, count) ==
    LET filtered == ClientIf(InitClient(hashKey, Undefined),
                             "__status", "active")
        resumed == IF rangeKey # Undefined
                   THEN [filtered EXCEPT
                            !.resume = ResumeToken(hashKey, rangeKey)]
                   ELSE filtered
        limited == IF checkNumber(count)
                   THEN [resumed EXCEPT !.limit = count]
                   ELSE resumed
    IN  [limited EXCEPT !.action = "query"]

\* update() without the condition on the version
UpdateClient_IgnoresVersion(hashKey, rangeKey, version) ==
    ClientIf(InitClient(hashKey, rangeKey), "__status", "active")

\* update() without the condition on the status
UpdateClient_IgnoresStatus(hashKey, rangeKey, version) ==
    ClientIf(InitClient(hashKey, rangeKey), "__version", version)

\* update(): the client conditioned on the active status and the version
UpdateClient(hashKey, rangeKey, version) ==
    ClientIf(ClientIf(InitClient(hashKey, rangeKey), "__status", "active"),
             "__version", version)

\* update() that copies every property of updateProps
UpdateCopy_CopiesAll(cfg, updateProps) == updateProps

\* update(): what the update copier selects from updateProps
UpdateCopy(cfg, updateProps) == CopierCopy(cfg.updateCopier, updateProps)

\* update() whose update values override the markers of the delete copier
DeleteCopy_UpdateWins(cfg, deleteProps, propsToUpdate) ==
    ObjectAssign(
        [f \in DOMAIN CopierCopy(cfg.deleteCopier, deleteProps) |-> DelMarker],
        propsToUpdate)

\* update(): what the delete copier selects from deleteProps, each value
\* replaced by client.del(), copied over propsToUpdate
DeleteCopy(cfg, deleteProps, propsToUpdate) ==
    ObjectAssign(propsToUpdate,
        [f \in DOMAIN CopierCopy(cfg.deleteCopier, deleteProps) |-> DelMarker])

PropsToUpdate(cfg, updateProps, deleteProps) ==
    DeleteCopy(cfg, deleteProps, UpdateCopy(cfg, updateProps))

\* update() that stamps the creator too
UpdateStamps_StampsCreator(propsToUpdate, version, username, updateDate) ==
    ObjectAssign(propsToUpdate,
        [__version |-> version,
         __createdBy |-> username,
         __createDate |-> updateDate,
         __updatedBy |-> username,
         __updateDate |-> updateDate])

\* update() that sets the audit information but no new version
UpdateStamps_KeepsVersion(propsToUpdate, version, username, updateDate) ==
    ObjectAssign(propsToUpdate,
        [__updatedBy |-> username,
         __updateDate |-> updateDate])

\* update(): the version and audit information set on a non-empty update
UpdateStamps(propsToUpdate, version, username, updateDate) ==
    ObjectAssign(propsToUpdate,
        [__version |-> version,
         __updatedBy |-> username,
         __updateDate |-> updateDate])

\* update() that issues the write whatever was selected
UpdateIsIssued_Always(properties) == TRUE

\* update(): whether a write is issued at all
UpdateIsIssued(properties) == Cardinality(properties) > 0

UpdateRequest(client, payload) ==
    [client EXCEPT !.action = "update", !.payload = payload]

\* update() that lists the fields of the write after stamping it
UpdateResult_StampedProperties(keys, properties, version, newVersion) ==
    [keys |-> keys,
     properties |-> IF properties = {} THEN {}
                    ELSE properties \cup {"__version", "__updatedBy",
                                          "__updateDate"},
     __version |-> version]

\* update() that resolves with the version it has written
UpdateResult_NewVersion(keys, properties, version, newVersion) ==
    [keys |-> keys, properties |-> properties, __version |-> newVersion]

\* update(): the value a successful update resolves with
UpdateResult(keys, properties, version, newVersion) ==
    [keys |-> keys, properties |-> properties, __version |-> version]

\* delete() without the condition on the version
DeleteClient_IgnoresVersion(hashKey, rangeKey, version) ==
    ClientIf(InitClient(hashKey, rangeKey), "__status", "active")

\* delete() without the condition on the status
DeleteClient_IgnoresStatus(hashKey, rangeKey, version) ==
    ClientIf(InitClient(hashKey, rangeKey), "__version", version)

\* delete(): the client conditioned on the active status and the version
DeleteClient(hashKey, rangeKey, version) ==
    ClientIf(ClientIf(InitClient(hashKey, rangeKey), "__status", "active"),
             "__version", version)

\* delete() that sets the status instead of removing the item
DeleteRequest_StatusFlip(client) ==
    [client EXCEPT !.action = "update",
                   !.payload = [__status |-> "deleted"]]

DeleteRequest(client) == [client EXCEPT !.action = "delete"]

-----------------------------------------------------------------------------
(* Promises: how a response settles the call *)

Pending == [state |-> "pending", value |-> EmptyObj, error |-> NoError]
\* an error thrown that ends up in a rejected promise
Thrown_AsRejection(error) ==
    [state |-> "rejected", value |-> EmptyObj, error |-> error]

Thrown(error) == [state |-> "thrown", value |-> EmptyObj, error |-> error]
Resolved(value) == [state |-> "resolved", value |-> value, error |-> NoError]
Rejected(error) == [state |-> "rejected", value |-> EmptyObj, error |-> error]

\* an event of the logger: its level, its message and, for an error, the
\* code of the error
LogEvent(level, message, code) ==
    [level |-> level, message |-> message, code |-> code]

\* Entity._execQuery(query, logger): logger.trace('Executing query'), before
\* query() is called
ExecQueryStart == <<LogEvent("trace", "Executing query", "")>>

\* _execQuery() that logs the completion whatever the query settled with
ExecQueryLog_AlwaysCompleted(response) ==
    <<LogEvent("info", "Query execution completed", "")>>

\* Entity._execQuery(query, logger): what the callbacks of query().then()
\* log: the completion, or the error with its code and then the error itself
ExecQueryLog(response) ==
    IF response.err = ""
    THEN <<LogEvent("info", "Query execution completed", "")>>
    ELSE <<LogEvent("error", "Error executing query", response.err),
           LogEvent("trace", "@error", response.err)>>

\* Entity._execQuery(query, logger): resolves with the results of the query,
\* or logs the error and throws it again
ExecQuery(response) ==
    IF response.err = "" THEN Resolved(response.data)
    ELSE Rejected(StoreError(response.err))

\* create() without the translation of the failed condition
CreateSettle_Untranslated(settled) == settled

\* create(): .then(undefined, (error) => ...)
CreateSettle(settled) ==
    IF settled.state = "rejected"
       /\ settled.error = StoreError(ConditionalCheckFailed)
    THEN Rejected(DuplicateRecordError)
    ELSE settled

\* lookup() that translates the failed condition
LookupSettle_Translates(settled) ==
    IF settled.state = "rejected"
       /\ settled.error = StoreError(ConditionalCheckFailed)
    THEN Rejected(ConcurrencyControlError)
    ELSE settled

\* lookup(): the promise of _execQuery is returned as it is
LookupSettle(settled) == settled

\* list(): the promise of _execQuery is returned as it is
ListSettle(settled) == settled

\* update(): .then((results) => ..., (error) => ...)
UpdateSettle(settled, keys, properties, version, newVersion) ==
    IF settled.state = "resolved"
    THEN Resolved(UpdateResult(keys, properties, version, newVersion))
    ELSE IF settled.error = StoreError(ConditionalCheckFailed)
    THEN Rejected(ConcurrencyControlError)
    ELSE settled

\* delete() that rejects whatever the table answered
DeleteSettle_AlwaysConflict(settled) == Rejected(ConcurrencyControlError)

\* delete(): .then(undefined, (error) => ...)
DeleteSettle(settled) ==
    IF settled.state = "rejected"
       /\ settled.error = StoreError(ConditionalCheckFailed)
    THEN Rejected(ConcurrencyControlError)
    ELSE settled

-----------------------------------------------------------------------------
(* The arguments callers pass *)

Callers == {"c1", "c2"}

KeysInputs ==
    { NotAnObject,
      Obj(EmptyObj),
      Obj([accountId |-> "a"]),
      Obj([accountId |-> "b"]),
      Obj([accountId |-> "a", entityId |-> "#1"]),
      Obj([accountId |-> "a", entityId |-> "#2"]),
      Obj([accountId |-> OtherType]),
      Obj([accountId |-> "a", entityId |-> OtherType]) }

\* the valid props try to set a reserved field and the key fields
PropsInputs ==
    { NotAnObject,
      Obj([tag |-> "x", count |-> "#1", __status |-> "deleted",
           __version |-> "hack", __createdBy |-> "eve", __updateDate |-> "never",
           accountId |-> "b", entityId |-> "#2"]) }

UpdatePropsInputs ==
    { NotAnObject,
      Obj(EmptyObj),
      Obj([__status |-> "deleted"]),
      Obj([__status |-> "active", tag |-> "z", count |-> "#2"]) }

DeletePropsInputs ==
    { NotAnObject,
      Obj(EmptyObj),
      Obj([tag |-> "-", count |-> "-"]) }

\* the ids shortid generated for the records the table holds at the start
PriorTokens == {"w1", "w2"}

VersionInputs == PriorTokens \cup {TokenOf(n) : n \in 1..MaxTokens} \cup {""}

AuditInputs == {NotAnObject}

CountInputs == {Undefined, "#0", "#1"}

\* what callers pass, as one record of argument sets
AllInputs ==
    [keys |-> KeysInputs, props |-> PropsInputs,
     updateProps |-> UpdatePropsInputs, deleteProps |-> DeletePropsInputs,
     version |-> VersionInputs, audit |-> AuditInputs, count |-> CountInputs,
     traced |-> FALSE]

\* the arguments of callers that all work on one record
OneRecordInputs ==
    [keys |-> {Obj([accountId |-> "a", entityId |-> "#1"])},
     props |-> {Obj([tag |-> "x"])},
     updateProps |-> {Obj([__status |-> "active", tag |-> "z",
                           count |-> "#2"])},
     deleteProps |-> {Obj(EmptyObj)},
     version |-> {"w1"} \cup {TokenOf(n) : n \in 1..MaxTokens},
     audit |-> {NotAnObject},
     count |-> {Undefined},
     traced |-> FALSE]

-----------------------------------------------------------------------------
(* The state of a call *)

NoRequest == InitClient(Undefined, Undefined)

NoArgs == [updateProps |-> EmptyObj, deleteProps |-> EmptyObj]

\* the arguments of a call as the caller passed them
NoRaw ==
    [traced |-> FALSE, keys |-> NotAnObject, props |-> NotAnObject,
     updateProps |-> NotAnObject, deleteProps |-> NotAnObject,
     version |-> Undefined, count |-> Undefined, allowUndefined |-> FALSE]

\* the call, with the arguments it was made with when these are recorded
Traced(in, raw, call) ==
    IF in.traced THEN [call EXCEPT !.raw = [raw EXCEPT !.traced = TRUE]]
    ELSE call

IdleCall ==
    [pc |-> "idle",             \* idle, inflight, settled
     op |-> "none",
     keys |-> EmptyObj,         \* the keys argument
     version |-> Undefined,     \* the version argument
     token |-> Undefined,       \* the id generated for the call
     properties |-> {},         \* update(): the names of the selected fields
     request |-> NoRequest,     \* the request sent to the table
     sent |-> 0,                \* how many requests the call has sent
     response |-> NoResponse,   \* what the client called back with
     outcome |-> Pending,       \* how the call ended
     log |-> <<>>,              \* what _execQuery has logged
     args |-> NoArgs,           \* history: update()'s updateProps, deleteProps
     audit |-> NotAnObject,     \* history: the audit argument
     raw |-> NoRaw,             \* history: the arguments as they were passed
     current |-> FALSE,         \* history: update() and delete() were called
                                \* with the version of the active record
     evaluated |-> FALSE,       \* history: the table evaluated the request
     pre |-> NoItem,            \* history: the item when it was evaluated
     post |-> NoItem]           \* history: the item right after

\* a call that throws before anything is sent
FailedCall(op, error) ==
    [IdleCall EXCEPT !.pc = "settled", !.op = op, !.outcome = Thrown(error)]

\* the identity a request reads or writes (a query has none)
TargetOf(req) ==
    IF req.action = "insert" THEN KeyOf(config, req.payload)
    ELSE <<req.where.hash, req.where.range>>

\* a call whose request is on its way to the table
SentCall(op, keys, version, token, properties, request) ==
    [IdleCall EXCEPT !.pc = "inflight", !.op = op, !.keys = keys,
        !.version = version, !.token = token, !.properties = properties,
        !.request = request, !.sent = 1, !.log = ExecQueryStart,
        !.current = /\ op \in {"update", "delete"}
                    /\ CondHolds(table[TargetOf(request)], request.cond)]

Min(a, b) == IF a < b THEN a ELSE b

-----------------------------------------------------------------------------
(* The state machine *)

\* well-formed and malformed arguments, recorded with each call
ValidationInputs ==
    [keys |-> KeysInputs
                  \cup {Obj([accountId |-> "a", entityId |-> "#2",
                             __status |-> "deleted"])},
     props |-> PropsInputs,
     updateProps |-> {NotAnObject, Obj([tag |-> "z", count |-> "#2"]),
                      Obj([__status |-> "deleted", __version |-> "hack",
                           __updatedBy |-> "eve", __createdBy |-> "eve"])},
     deleteProps |-> {NotAnObject, Obj(EmptyObj)},
     version |-> {"w1", "", "#1", Undefined},
     audit |-> {NotAnObject},
     count |-> {Undefined, OtherType, "#-1", "#0", "#1", "#2"},
     traced |-> TRUE]

StampInputs ==
    [OneRecordInputs EXCEPT
        !.audit = {NotAnObject, Obj(EmptyObj), Obj([username |-> "joe"]),
                   Obj([username |-> ""]), Obj([username |-> "#1"])}]

\* The table outlives the entity object: when the entity is constructed the
\* table is empty, or holds a record an earlier create() inserted, or (where
\* the update copier selects __status) that record after an earlier update()
\* set its __status to "deleted".
EarlierKeys == [accountId |-> "a", entityId |-> "#1"]
EarlierProps == [tag |-> "x", count |-> "#1"]

CreatedEarlier(cfg) ==
    CreatePayload(EarlierProps, EarlierKeys, cfg.username, "w1",
                  DateOf(0), DateOf(0))

DeletedEarlier(cfg) ==
    ApplyUpdate(CreatedEarlier(cfg),
        UpdateStamps(UpdateCopy(cfg, [__status |-> "deleted"]), "w2",
                     cfg.username, DateOf(0)))

EmptyTable == [id \in IdSpace |-> NoItem]

InitialItems(cfg) ==
    {NoItem, CreatedEarlier(cfg)}
    \cup (IF "__status" \in cfg.updateCopier THEN {DeletedEarlier(cfg)}
          ELSE {})

Init ==
    /\ config \in Configs
    /\ \E item \in InitialItems(config) :
        LET id == KeyOf(config, CreatedEarlier(config))
        IN  /\ table = [EmptyTable EXCEPT ![id] = item]
            /\ versions = [i \in IdSpace |->
                   IF i # id \/ item = NoItem THEN {}
                   ELSE IF item = CreatedEarlier(config) THEN {"w1"}
                   ELSE {"w1", "w2"}]
    /\ now = 0
    /\ generated = 0
    /\ calls = [p \in Callers |-> IdleCall]

\* SimpleEntity.create(keys, props, audit), up to the request it sends
CreateCall(p, in) ==
    /\ calls[p].pc = "idle"
    /\ \E keys \in in.keys, props \in in.props, audit \in in.audit :
        LET rangeKeyOptional == config.rangeKeyName = Undefined
            params == InitParams(config, keys, audit, rangeKeyOptional)
            raw == [NoRaw EXCEPT !.keys = keys, !.props = props]
        IN  IF ~checkObject(props)
            THEN /\ calls' = [calls EXCEPT ![p] = Traced(in, raw,
                        FailedCall("create",
                                   ArgError("Invalid props (arg #2)")))]
                 /\ UNCHANGED <<now, generated>>
            ELSE IF params.err # NoError
            THEN /\ calls' = [calls EXCEPT ![p] = Traced(in, raw,
                        FailedCall("create", params.err))]
                 /\ UNCHANGED <<now, generated>>
            ELSE /\ generated < MaxTokens
                 \* Date.now() is read twice: the clock may tick in between
                 /\ \E updateDate \in now..Min(now + 1, MaxClock) :
                     LET version == TokenOf(generated + 1)
                         payload == CreatePayload(props.m, keys.m,
                                        params.username, version,
                                        DateOf(now), DateOf(updateDate))
                     IN  /\ calls' = [calls EXCEPT ![p] = Traced(in, raw,
                                [SentCall("create", keys.m, Undefined,
                                     version, {}, CreateRequest(payload))
                                 EXCEPT !.audit = audit])]
                         /\ now' = updateDate
                 /\ generated' = generated + 1
    /\ UNCHANGED <<config, table, versions>>

\* SimpleEntity.lookup(keys, audit), up to the request it sends
LookupCall(p, in) ==
    /\ calls[p].pc = "idle"
    /\ \E keys \in in.keys, audit \in in.audit :
        LET rangeKeyOptional == config.rangeKeyName = Undefined
            params == InitParams(config, keys, audit, rangeKeyOptional)
            raw == [NoRaw EXCEPT !.keys = keys]
        IN  calls' = [calls EXCEPT ![p] = Traced(in, raw,
                IF ~checkObject(keys)
                THEN FailedCall("lookup", ArgError("Invalid keys (arg #1)"))
                ELSE IF params.err # NoError
                THEN FailedCall("lookup", params.err)
                ELSE SentCall("lookup", keys.m, Undefined, Undefined, {},
                         LookupRequest(params.hashKey, params.rangeKey)))]
    /\ UNCHANGED <<config, table, now, generated, versions>>

\* SimpleEntity.list(keys, count, audit), up to the request it sends
ListCall(p, in) ==
    /\ calls[p].pc = "idle"
    /\ \E keys \in in.keys, count \in in.count, audit \in in.audit :
        LET params == InitParams(config, keys, audit, TRUE)
            raw == [NoRaw EXCEPT !.keys = keys, !.count = count]
        IN  calls' = [calls EXCEPT ![p] = Traced(in, raw,
                IF ~checkObject(keys)
                THEN FailedCall("list", ArgError("Invalid keys (arg #1)"))
                ELSE IF params.err # NoError
                THEN FailedCall("list", params.err)
                ELSE SentCall("list", keys.m, Undefined, Undefined, {},
                         ListRequest(params.hashKey, params.rangeKey,
                                     count)))]
    /\ UNCHANGED <<config, table, now, generated, versions>>

\* update() without the check of the version
UpdateArgError_NoVersionCheck(keys, updateProps, deleteProps, version) ==
    IF ~checkObject(keys) THEN ArgError("Invalid keys (arg #1)")
    ELSE IF ~checkObject(updateProps)
    THEN ArgError("Invalid update properties (arg #2)")
    ELSE IF ~checkObject(deleteProps)
    THEN ArgError("Invalid delete properties (arg #3)")
    ELSE NoError

\* update(): the argument checks, in their order
UpdateArgError(keys, updateProps, deleteProps, version) ==
    IF ~checkObject(keys) THEN ArgError("Invalid keys (arg #1)")
    ELSE IF ~checkObject(updateProps)
    THEN ArgError("Invalid update properties (arg #2)")
    ELSE IF ~checkObject(deleteProps)
    THEN ArgError("Invalid delete properties (arg #3)")
    ELSE IF ~checkString(version) THEN ArgError("Invalid version (arg #4)")
    ELSE NoError

\* SimpleEntity.update(keys, updateProps, deleteProps, version, audit), up to
\* the request it sends, or to its end when no field is selected
UpdateCall(p, in) ==
    /\ calls[p].pc = "idle"
    /\ \E keys \in in.keys, updateProps \in in.updateProps,
          deleteProps \in in.deleteProps, version \in in.version,
          audit \in in.audit :
        LET argError == UpdateArgError(keys, updateProps, deleteProps, version)
            rangeKeyOptional == config.rangeKeyName = Undefined
            params == InitParams(config, keys, audit, rangeKeyOptional)
            client == UpdateClient(params.hashKey, params.rangeKey, version)
            propsToUpdate == PropsToUpdate(config, updateProps.m, deleteProps.m)
            properties == DOMAIN propsToUpdate
            raw == [NoRaw EXCEPT !.keys = keys, !.updateProps = updateProps,
                       !.deleteProps = deleteProps, !.version = version]
        IN  IF argError # NoError
            THEN /\ calls' = [calls EXCEPT ![p] = Traced(in, raw,
                        FailedCall("update", argError))]
                 /\ UNCHANGED generated
            ELSE IF params.err # NoError
            THEN /\ calls' = [calls EXCEPT ![p] = Traced(in, raw,
                        FailedCall("update", params.err))]
                 /\ UNCHANGED generated
            ELSE IF UpdateIsIssued(properties)
            THEN /\ generated < MaxTokens
                 /\ LET newVersion == TokenOf(generated + 1)
                        payload == UpdateStamps(propsToUpdate, newVersion,
                                       params.username, DateOf(now))
                    IN  calls' = [calls EXCEPT ![p] = Traced(in, raw,
                            [SentCall("update", keys.m, version, newVersion,
                                 properties, UpdateRequest(client, payload))
                             EXCEPT !.args = [updateProps |-> updateProps.m,
                                              deleteProps |-> deleteProps.m],
                                    !.audit = audit])]
                 /\ generated' = generated + 1
            ELSE /\ calls' = [calls EXCEPT ![p] = Traced(in, raw,
                        [IdleCall EXCEPT !.pc = "settled", !.op = "update",
                            !.keys = keys.m, !.version = version,
                            !.args = [updateProps |-> updateProps.m,
                                      deleteProps |-> deleteProps.m],
                            !.current = CondHolds(
                                table[<<params.hashKey, params.rangeKey>>],
                                client.cond),
                            !.outcome = Resolved(UpdateResult(keys.m,
                                            properties, version, Undefined))])]
                 /\ UNCHANGED generated
    /\ UNCHANGED <<config, table, now, versions>>

\* SimpleEntity.delete(keys, version, audit), up to the request it sends
DeleteCall(p, in) ==
    /\ calls[p].pc = "idle"
    /\ \E keys \in in.keys, version \in in.version, audit \in in.audit :
        LET rangeKeyOptional == config.rangeKeyName = Undefined
            params == InitParams(config, keys, audit, rangeKeyOptional)
            raw == [NoRaw EXCEPT !.keys = keys, !.version = version]
        IN  calls' = [calls EXCEPT ![p] = Traced(in, raw,
                IF ~checkObject(keys)
                THEN FailedCall("delete", ArgError("Invalid keys (arg #1)"))
                ELSE IF ~checkString(version)
                THEN FailedCall("delete", ArgError("Invalid version (arg #2)"))
                ELSE IF params.err # NoError
                THEN FailedCall("delete", params.err)
                ELSE SentCall("delete", keys.m, version, Undefined, {},
                         DeleteRequest(DeleteClient(params.hashKey,
                             params.rangeKey, version))))]
    /\ UNCHANGED <<config, table, now, generated, versions>>

\* how the promise of a call settles once the client has called back
SettleCall(c, response) ==
    LET settled == ExecQuery(response)
    IN  CASE c.op = "create" -> CreateSettle(settled)
          [] c.op = "lookup" -> LookupSettle(settled)
          [] c.op = "list" -> ListSettle(settled)
          [] c.op = "update" -> UpdateSettle(settled, c.keys, c.properties,
                                             c.version, c.token)
          [] c.op = "delete" -> DeleteSettle(settled)

\* the table evaluates the request of a call, the client calls back and the
\* promise of the call settles
StoreEvaluate(p) ==
    /\ calls[p].pc = "inflight"
    /\ LET req == calls[p].request
           done == Evaluate(config, table, req)
           id == TargetOf(req)
           single == req.action # "query"
       IN  /\ table' = done.table
           /\ calls' = [calls EXCEPT ![p] =
                  [@ EXCEPT !.pc = "settled", !.response = done.response,
                      !.log = @ \o ExecQueryLog(done.response),
                      !.outcome = SettleCall(calls[p], done.response),
                      !.evaluated = TRUE,
                      !.pre = IF single THEN table[id] ELSE NoItem,
                      !.post = IF single THEN done.table[id] ELSE NoItem]]
           /\ versions' =
                  IF single /\ done.table[id] # NoItem
                  THEN [versions EXCEPT ![id] =
                           @ \cup {done.table[id]["__version"]}]
                  ELSE versions
    /\ UNCHANGED <<config, now, generated>>

\* the error codes the client may call back with instead of an answer of the
\* table: for a read, which carries no condition, any code at all
FailureCodes(req) ==
    IF req.action \in {"get", "query"}
    THEN OtherStoreCodes \cup {ConditionalCheckFailed}
    ELSE OtherStoreCodes

\* a failed request that is sent again
StoreFail_Retries(p) ==
    /\ calls[p].pc = "inflight"
    /\ calls' = [calls EXCEPT ![p] = [@ EXCEPT !.sent = @ + 1]]
    /\ UNCHANGED <<config, table, now, generated, versions>>

\* the request of a call fails before the table evaluates it, the client calls
\* back with the error and the promise of the call settles
StoreFail(p) ==
    /\ calls[p].pc = "inflight"
    /\ \E code \in FailureCodes(calls[p].request) :
        calls' = [calls EXCEPT ![p] =
            [@ EXCEPT !.pc = "settled", !.response = ErrResponse(code),
                !.log = @ \o ExecQueryLog(ErrResponse(code)),
                !.outcome = SettleCall(calls[p], ErrResponse(code))]]
    /\ UNCHANGED <<config, table, now, generated, versions>>

\* the caller has the outcome and may call again
Return(p) ==
    /\ calls[p].pc = "settled"
    /\ calls' = [calls EXCEPT ![p] = IdleCall]
    /\ UNCHANGED <<config, table, now, generated, versions>>

\* time passes
Tick ==
    /\ now < MaxClock
    /\ now' = now + 1
    /\ UNCHANGED <<config, table, generated, calls, versions>>

\* one caller, calling with any of the arguments, one call at a time
Next ==
    \/ \E p \in {"c1"} :
        \/ CreateCall(p, AllInputs)
        \/ LookupCall(p, AllInputs)
        \/ ListCall(p, AllInputs)
        \/ UpdateCall(p, AllInputs)
        \/ DeleteCall(p, AllInputs)
        \/ StoreEvaluate(p)
        \/ StoreFail(p)
        \/ Return(p)

Spec == Init /\ [][Next]_vars

\* two callers whose calls on one record overlap
NextConcurrent ==
    \/ \E p \in Callers :
        \/ CreateCall(p, OneRecordInputs)
        \/ LookupCall(p, OneRecordInputs)
        \/ ListCall(p, OneRecordInputs)
        \/ UpdateCall(p, OneRecordInputs)
        \/ DeleteCall(p, OneRecordInputs)
        \/ StoreEvaluate(p)
        \/ StoreFail(p)
        \/ Return(p)

SpecConcurrent == Init /\ [][NextConcurrent]_vars

\* One caller on one identity, with and without audit information, while the
\* clock advances between the calls.
NextStamps ==
    \/ \E p \in {"c1"} :
        \/ CreateCall(p, StampInputs)
        \/ LookupCall(p, StampInputs)
        \/ ListCall(p, StampInputs)
        \/ UpdateCall(p, StampInputs)
        \/ DeleteCall(p, StampInputs)
        \/ StoreEvaluate(p)
        \/ StoreFail(p)
        \/ Return(p)
    \/ Tick

SpecStamps == Init /\ [][NextStamps]_vars

-----------------------------------------------------------------------------
(* Properties *)

\* the callers whose call has ended after the table evaluated its request
EvaluatedCalls(ops) ==
    {p \in Callers : /\ calls[p].pc = "settled"
                     /\ calls[p].evaluated
                     /\ calls[p].op \in ops}

IsActive(item) == Prop(item, "__status") = "active"
VersionIs(item, version) == Prop(item, "__version") = version

\* C1 (amended): when the table evaluates a delete, or an update that selects
\* at least one field, whose version argument differs from the __version of
\* the record stored under the keys, the call is rejected with a
\* ConcurrencyControlError and the record is left exactly as it was.
C1_StaleVersionRejected ==
    \A p \in EvaluatedCalls({"update", "delete"}) :
        LET c == calls[p]
        IN  (c.pre # NoItem /\ ~VersionIs(c.pre, c.version))
                => /\ c.outcome = Rejected(ConcurrencyControlError)
                   /\ c.post = c.pre

\* C1, its case: an update of an active record with another version than the
\* record's was evaluated and rejected
C1_Witness ==
    \E p \in EvaluatedCalls({"update"}) :
        LET c == calls[p]
        IN  /\ c.pre # NoItem /\ IsActive(c.pre)
            /\ ~VersionIs(c.pre, c.version)
            /\ c.outcome = Rejected(ConcurrencyControlError)

\* C1 as stated: every update and every delete that passes validation and is
\* not failed by the store itself, made on a stored record with another
\* version than the record's, is rejected with a ConcurrencyControlError;
\* this includes the updates that select no field.
C1_EveryStaleCallRejected ==
    \A p \in {"c1"} :
        LET c == calls[p]
            stored == IF c.evaluated THEN c.pre
                      ELSE table[<<GetHashKey(config, c.keys).value,
                                   GetRangeKey(config, c.keys, FALSE).value>>]
        IN  (/\ c.pc = "settled"
             /\ c.op \in {"update", "delete"}
             /\ c.outcome.state # "thrown"
             /\ c.evaluated \/ c.sent = 0
             /\ stored # NoItem
             /\ ~VersionIs(stored, c.version))
                => c.outcome = Rejected(ConcurrencyControlError)

RacingCalls(p, q) ==
    /\ p # q
    /\ {p, q} \subseteq EvaluatedCalls({"update", "delete"})
    /\ calls[p].keys = calls[q].keys
    /\ calls[p].version = calls[q].version
    /\ calls[p].current /\ calls[q].current

\* C2: when two update or delete calls on the same identity were both made
\* with the version of the active record and the table has evaluated the
\* request of each, one of them resolved, the other was rejected with a
\* ConcurrencyControlError, and each sent its one request only.
C2_OneWinnerPerRace ==
    \A p, q \in Callers :
        RacingCalls(p, q) =>
            /\ \/ /\ calls[p].outcome.state = "resolved"
                  /\ calls[q].outcome = Rejected(ConcurrencyControlError)
               \/ /\ calls[q].outcome.state = "resolved"
                  /\ calls[p].outcome = Rejected(ConcurrencyControlError)
            /\ calls[p].sent = 1 /\ calls[q].sent = 1

\* C2, its case: an update and a delete raced and the delete won
C2_Witness ==
    \E p, q \in Callers :
        /\ RacingCalls(p, q)
        /\ calls[p].op = "update" /\ calls[q].op = "delete"
        /\ calls[q].outcome.state = "resolved"
        /\ calls[p].outcome = Rejected(ConcurrencyControlError)

\* the record holds under the conditions update() and delete() set
Writable(item, version) ==
    item # NoItem /\ IsActive(item) /\ VersionIs(item, version)

\* C3: when the table evaluates a delete, or an update that selects at least
\* one field, the write takes effect if and only if the identity holds a
\* record with __status "active" and __version equal to the version
\* argument; otherwise the call is rejected with a ConcurrencyControlError
\* and the table is as it was.
C3_WriteIffActiveAndCurrent ==
    \A p \in EvaluatedCalls({"update", "delete"}) :
        LET c == calls[p]
        IN  IF Writable(c.pre, c.version)
            THEN /\ c.outcome.state = "resolved"
                 /\ c.post # c.pre
                 /\ c.op = "delete" => c.post = NoItem
                 /\ c.op = "update" =>
                        c.post = ApplyUpdate(c.pre, c.request.payload)
            ELSE /\ c.outcome = Rejected(ConcurrencyControlError)
                 /\ c.post = c.pre

\* C3, its case: a delete with the version of a record that is not active
\* was evaluated and rejected
C3_Witness ==
    \E p \in EvaluatedCalls({"delete"}) :
        LET c == calls[p]
        IN  /\ c.pre # NoItem /\ ~IsActive(c.pre)
            /\ VersionIs(c.pre, c.version)
            /\ c.outcome = Rejected(ConcurrencyControlError)
\* C4: when the table evaluates the insert of a create whose identity already
\* holds a record, whatever the __status of that record, the call is rejected
\* with a DuplicateRecordError and the record is left as it was.
C4_CreateOnExistingIsDuplicate ==
    \A p \in EvaluatedCalls({"create"}) :
        LET c == calls[p]
        IN  c.pre # NoItem
                => /\ c.outcome = Rejected(DuplicateRecordError)
                   /\ c.post = c.pre

\* C4, its case: a create on the identity of a record that is not active was
\* rejected as a duplicate
C4_Witness ==
    \E p \in EvaluatedCalls({"create"}) :
        LET c == calls[p]
        IN  /\ c.pre # NoItem /\ ~IsActive(c.pre)
            /\ c.outcome = Rejected(DuplicateRecordError)
            /\ table[TargetOf(c.request)] = c.pre

\* C5 as stated: a lookup that the table evaluates on an identity whose
\* record has a __status other than "active" resolves with the empty object,
\* and one on an active record resolves with the record as it is stored.
C5_LookupHidesInactive ==
    \A p \in EvaluatedCalls({"lookup"}) :
        LET c == calls[p]
        IN  /\ (c.pre # NoItem /\ ~IsActive(c.pre))
                => c.outcome = Resolved(EmptyObj)
            /\ (c.pre # NoItem /\ IsActive(c.pre))
                => c.outcome = Resolved(c.pre)

\* the hash key list() was called with
ListedHashKey(c) == GetHashKey(config, c.keys).value

\* C6: every record of a page that list() resolves with has the hash key the
\* call was made with and __status "active".
C6_ListedRecordsActive ==
    \A p \in EvaluatedCalls({"list"}) :
        LET c == calls[p]
            page == c.outcome.value
        IN  c.outcome.state = "resolved" =>
                \A i \in 1..Len(page) :
                    /\ Prop(page[i], config.hashKeyName) = ListedHashKey(c)
                    /\ IsActive(page[i])

\* C6, its case: list() resolved with a page of records while the table held
\* a record of the same hash key that is not active
C6_Witness ==
    \E p \in EvaluatedCalls({"list"}) :
        LET c == calls[p]
        IN  /\ c.outcome.state = "resolved"
            /\ Len(c.outcome.value) > 0
            /\ \E r \in RangeVals \cup {Undefined} :
                LET item == table[<<ListedHashKey(c), r>>]
                IN  item # NoItem /\ ~IsActive(item)

\* the policies select no field of the arguments of an update
SelectsNothing(c) ==
    /\ config.updateCopier \cap DOMAIN c.args.updateProps = {}
    /\ config.deleteCopier \cap DOMAIN c.args.deleteProps = {}

\* the update calls that passed validation and have ended
EndedUpdates ==
    {p \in Callers : /\ calls[p].pc = "settled"
                     /\ calls[p].op = "update"
                     /\ calls[p].outcome.state # "thrown"}

\* C7: an update for which the update and delete policies select no field
\* sends no request to the table and resolves with the keys, an empty list of
\* properties and the version it was called with.
C7_EmptyUpdateSendsNothing ==
    \A p \in EndedUpdates :
        LET c == calls[p]
        IN  SelectsNothing(c)
                => /\ c.sent = 0
                   /\ ~c.evaluated
                   /\ c.outcome = Resolved([keys |-> c.keys,
                                            properties |-> {},
                                            __version |-> c.version])

\* C7, its case: an update called with properties none of which the policies
\* select has resolved
C7_Witness ==
    \E p \in EndedUpdates :
        LET c == calls[p]
        IN  /\ SelectsNothing(c)
            /\ DOMAIN c.args.updateProps # {}
            /\ c.outcome.state = "resolved"
            /\ c.sent = 0

\* a step in which the table evaluates the write of p and the call resolves
WriteSucceeds(p, ops) ==
    /\ calls[p].pc = "inflight"
    /\ calls[p].op \in ops
    /\ calls'[p].pc = "settled"
    /\ calls'[p].evaluated
    /\ calls'[p].outcome.state = "resolved"

\* C8: the __version a successful create or a successful update that selects
\* fields stores is one the identity has never held before, and the one an
\* update stores differs from the version the update was called with.
C8_StoredVersionIsNew ==
    [][\A p \in Callers :
        WriteSucceeds(p, {"create", "update"}) =>
            LET id == TargetOf(calls[p].request)
                stored == table'[id]
            IN  /\ stored # NoItem
                /\ Prop(stored, "__version") \notin versions[id]
                /\ checkString(Prop(stored, "__version"))
                /\ calls[p].op = "update" =>
                        Prop(stored, "__version") # calls[p].version]_vars

\* C8, its case: an update has succeeded on an identity that has by then held
\* three versions
C8_Witness ==
    \E p \in EvaluatedCalls({"update"}) :
        LET c == calls[p]
        IN  /\ c.outcome.state = "resolved"
            /\ Cardinality(versions[TargetOf(c.request)]) >= 3
            /\ Prop(c.post, "__version") # Prop(c.pre, "__version")

\* C9: an update writes no field of updateProps that the update policy does
\* not select, and removes no field of deleteProps that the delete policy
\* does not select.
C9_UnselectedFieldsUntouched ==
    \A p \in EvaluatedCalls({"update"}) :
        LET c == calls[p]
        IN  /\ \A f \in DOMAIN c.args.updateProps \ config.updateCopier :
                f \in DOMAIN c.post =>
                    f \in DOMAIN c.pre /\ c.post[f] = c.pre[f]
            /\ \A f \in DOMAIN c.args.deleteProps \ config.deleteCopier :
                f \in DOMAIN c.pre => f \in DOMAIN c.post

\* C9, its case: a successful update was called with a field to set that the
\* update policy does not select and the record holds with another value, or
\* with a field to remove that the delete policy does not select and the
\* record holds
C9_Witness ==
    \E p \in EvaluatedCalls({"update"}) :
        LET c == calls[p]
        IN  /\ c.outcome.state = "resolved"
            /\ \/ \E f \in DOMAIN c.args.updateProps \ config.updateCopier :
                    /\ f \notin config.deleteCopier
                    /\ f \in DOMAIN c.pre
                    /\ c.args.updateProps[f] # c.pre[f]
               \/ \E f \in DOMAIN c.args.deleteProps \ config.deleteCopier :
                    /\ f \notin config.updateCopier
                    /\ f \in DOMAIN c.pre

\* C10: a successful update resolves with the version it was called with.
C10_UpdateResolvesWithGivenVersion ==
    \A p \in EndedUpdates :
        LET c == calls[p]
        IN  c.outcome.state = "resolved"
                => c.outcome.value["__version"] = c.version

\* C10, its case: an update that wrote a new version resolved with the
\* version it was called with
C10_Witness ==
    \E p \in EvaluatedCalls({"update"}) :
        LET c == calls[p]
        IN  /\ c.outcome.state = "resolved"
            /\ c.outcome.value["__version"] = c.version
            /\ Prop(c.post, "__version") = c.token
            /\ c.token # c.version

C12_DeleteRemovesItem ==
    \A p \in Callers :
        LET c == calls[p]
        IN  /\ (p \in EvaluatedCalls({"delete"})
                /\ c.outcome.state = "resolved")
                => /\ Writable(c.pre, c.version)
                   /\ c.post = NoItem
                   /\ table[TargetOf(c.request)] = NoItem
            /\ (p \in EvaluatedCalls({"lookup"}) /\ c.pre = NoItem)
                => c.outcome = Resolved(EmptyObj)
            /\ (p \in EvaluatedCalls({"list"})
                /\ c.outcome.state = "resolved")
                => \A i \in 1..Len(c.outcome.value) :
                    table[KeyOf(config, c.outcome.value[i])]
                        = c.outcome.value[i]
            /\ (p \in EvaluatedCalls({"create"}) /\ c.pre = NoItem)
                => /\ c.outcome.state = "resolved"
                   /\ c.post = c.request.payload
                   /\ IsActive(c.post)

\* C12, its case: a create has succeeded on keys whose earlier record a
\* delete had removed
C12_Witness ==
    \E p \in EvaluatedCalls({"create"}) :
        LET c == calls[p]
            id == TargetOf(c.request)
        IN  /\ c.pre = NoItem
            /\ "w1" \in versions[id]
            /\ c.outcome.state = "resolved"
            /\ table[id] = c.request.payload

\* the username that stamps a call: the username of the audit argument when
\* that is a non-empty string, else the username the entity was constructed
\* with, else "SYSTEM"
ExpectedUsername(audit) ==
    IF audit.obj /\ "username" \in DOMAIN audit.m
       /\ audit.m["username"] \notin NonStrings /\ audit.m["username"] # ""
    THEN audit.m["username"]
    ELSE IF config.options.username \notin NonStrings
            /\ config.options.username # ""
    THEN config.options.username
    ELSE "SYSTEM"

\* C13: the record a successful create stores has __status "active", as
\* __version the non-empty id generated for the call, which no record held
\* before, and as __createdBy and __updatedBy the username resolved for the
\* call: "SYSTEM" when the call has no audit username and the entity no
\* configured one.
C13_CreateStamps ==
    \A p \in EvaluatedCalls({"create"}) :
        LET c == calls[p]
        IN  c.outcome.state = "resolved" =>
                /\ Prop(c.post, "__status") = "active"
                /\ Prop(c.post, "__version") = c.token
                /\ c.token \notin NonStrings /\ c.token # ""
                /\ c.token \notin PriorTokens
                /\ Prop(c.post, "__createdBy") = ExpectedUsername(c.audit)
                /\ Prop(c.post, "__updatedBy") = ExpectedUsername(c.audit)

\* C13, its case: a create without audit information, on an entity without a
\* configured username, has stored a record stamped "SYSTEM"
C13_Witness ==
    \E p \in EvaluatedCalls({"create"}) :
        LET c == calls[p]
        IN  /\ c.outcome.state = "resolved"
            /\ ~c.audit.obj
            /\ config.options.username = Undefined
            /\ c.post["__createdBy"] = "SYSTEM"
            /\ c.post["__updatedBy"] = "SYSTEM"

\* One caller whose calls carry well-formed and malformed arguments, with
\* the arguments of each call recorded.
NextValidation ==
    \E p \in {"c1"} :
        \/ CreateCall(p, ValidationInputs)
        \/ LookupCall(p, ValidationInputs)
        \/ ListCall(p, ValidationInputs)
        \/ UpdateCall(p, ValidationInputs)
        \/ DeleteCall(p, ValidationInputs)
        \/ StoreEvaluate(p)
        \/ StoreFail(p)
        \/ Return(p)

SpecValidation == Init /\ [][NextValidation]_vars

\* a value that can be a key: a non-empty string or a number
KeyValue(v) == v \notin {Undefined, OtherType, "", "#-1", "#0"}

\* the messages that name the malformed arguments of a recorded call
KeysMessages(c) ==
    LET keys == c.raw.keys
        hash == Prop(keys.m, config.hashKeyName)
        range == Prop(keys.m, config.rangeKeyName)
        rangeBad == IF range = Undefined THEN c.op # "list"
                    ELSE ~KeyValue(range)
    IN  IF ~keys.obj THEN {"Invalid keys (arg #1)"}
        ELSE (IF KeyValue(hash) THEN {}
              ELSE {"Invalid hash key (keys." \o config.hashKeyName \o ")"})
             \cup
             (IF config.rangeKeyName # Undefined /\ rangeBad
              THEN {"Invalid range key (keys." \o config.rangeKeyName \o ")"}
              ELSE {})

VersionBad(c) == c.raw.version \in NonStrings \/ c.raw.version = ""

MalformedMessages(c) ==
    KeysMessages(c)
    \cup (IF c.op = "create" /\ ~c.raw.props.obj
          THEN {"Invalid props (arg #2)"} ELSE {})
    \cup (IF c.op = "update" /\ ~c.raw.updateProps.obj
          THEN {"Invalid update properties (arg #2)"} ELSE {})
    \cup (IF c.op = "update" /\ ~c.raw.deleteProps.obj
          THEN {"Invalid delete properties (arg #3)"} ELSE {})
    \cup (IF c.op = "update" /\ VersionBad(c)
          THEN {"Invalid version (arg #4)"} ELSE {})
    \cup (IF c.op = "delete" /\ VersionBad(c)
          THEN {"Invalid version (arg #2)"} ELSE {})

\* the callers whose call has ended, with its arguments recorded
EndedTraced == {p \in Callers : calls[p].pc = "settled" /\ calls[p].raw.traced}

\* C14: a call of create, lookup, list, update or delete with a malformed
\* argument (keys, props, updateProps or deleteProps that is no object, a
\* version that is no non-empty string, a hash key or a required range key
\* that is missing or of a wrong type) throws an ArgError whose message names
\* one of the malformed arguments, and sends no request to the table.
C14_MalformedArgumentThrows ==
    \A p \in EndedTraced :
        LET c == calls[p]
        IN  MalformedMessages(c) # {}
                => /\ c.outcome.state = "thrown"
                   /\ c.outcome.error.type = "ArgError"
                   /\ c.outcome.error.message \in MalformedMessages(c)
                   /\ c.sent = 0
                   /\ ~c.evaluated
                   /\ c.request = NoRequest

\* C14, its case: an update whose only malformed argument is the version
\* has thrown
C14_Witness ==
    \E p \in EndedTraced :
        LET c == calls[p]
        IN  /\ c.op = "update"
            /\ MalformedMessages(c) = {"Invalid version (arg #4)"}
            /\ c.outcome = Thrown(ArgError("Invalid version (arg #4)"))
            /\ c.sent = 0

\* a step in which the call of p ends in a failure: an error thrown or a
\* rejected promise
CallFails(p, ops) ==
    /\ calls[p].pc # "settled"
    /\ calls'[p].pc = "settled"
    /\ calls'[p].op \in ops
    /\ calls'[p].outcome.state \in {"thrown", "rejected"}

\* C15: the step in which a create, an update or a delete fails, with an
\* ArgError, a DuplicateRecordError, a ConcurrencyControlError or an error of
\* the store, leaves the whole table as it was.
C15_FailureLeavesTable ==
    [][\A p \in Callers :
        CallFails(p, {"create", "update", "delete"}) => table' = table]_vars

\* C15, its case: an update made with the version of the active record has
\* failed with an error of the store, and the record is as it was
C15_Witness ==
    \E p \in Callers :
        LET c == calls[p]
        IN  /\ c.pc = "settled" /\ c.op = "update"
            /\ c.outcome.state = "rejected"
            /\ c.outcome.error.type = "StoreError"
            /\ c.outcome.error.message \in OtherStoreCodes
            /\ Writable(table[TargetOf(c.request)], c.version)

\* C16: a call of create, lookup, list, update or delete has sent no request
\* or one; a call that the client has called back, with records or with an
\* error, has sent exactly one, and a call without a request has sent none.
C16_AtMostOneRequest ==
    \A p \in Callers :
        LET c == calls[p]
        IN  /\ c.sent \in {0, 1}
            /\ (c.sent = 0) <=> (c.request = NoRequest)
            /\ c.response # NoResponse => c.sent = 1
            /\ c.pc = "inflight" => c.sent = 1

\* C16, its case: a lookup that the store failed has ended rejected, having
\* sent its one request
C16_Witness ==
    \E p \in Callers :
        LET c == calls[p]
        IN  /\ c.pc = "settled" /\ c.op = "lookup"
            /\ c.outcome.state = "rejected"
            /\ c.response.err \in OtherStoreCodes
            /\ c.sent = 1

\* the callers whose call has ended after the client called back with an error
ErroredCalls ==
    {p \in Callers : calls[p].pc = "settled" /\ calls[p].response.err # ""
                     /\ calls[p].response # NoResponse}

\* C17: when the client calls back with an error other than a failed
\* condition, the call is rejected with that same error, whatever the
\* operation; a rejection with DuplicateRecordError only ends a create, one
\* with ConcurrencyControlError only an update or a delete, and lookup and
\* list reject with the error of the client whatever it is.
C17_StoreErrorsPassThrough ==
    /\ \A p \in ErroredCalls :
        LET c == calls[p]
        IN  /\ c.response.err # ConditionalCheckFailed
                => c.outcome = Rejected(StoreError(c.response.err))
            /\ c.op \in {"lookup", "list"}
                => c.outcome = Rejected(StoreError(c.response.err))
    /\ \A p \in Callers :
        LET c == calls[p]
        IN  /\ c.outcome.error = DuplicateRecordError => c.op = "create"
            /\ c.outcome.error = ConcurrencyControlError
                => c.op \in {"update", "delete"}

\* C17, its case: a list that the client called back with the error code of
\* a failed condition was rejected with that error
C17_Witness ==
    \E p \in ErroredCalls :
        LET c == calls[p]
        IN  /\ c.op = "list"
            /\ c.response.err = ConditionalCheckFailed
            /\ c.outcome = Rejected(StoreError(ConditionalCheckFailed))

\* the callers whose call has ended
EndedCalls == {p \in Callers : calls[p].pc = "settled"}

\* C18 (amended): a call that fails with an ArgError throws it, before any
\* promise exists; a call that fails with a DuplicateRecordError, a
\* ConcurrencyControlError or an error of the store returns a promise that
\* is rejected with that error; a call that resolves carries no error.
C18_FailuresThrownOrRejected ==
    \A p \in EndedCalls :
        LET c == calls[p]
        IN  /\ c.outcome.state \in {"thrown", "rejected", "resolved"}
            /\ (c.outcome.error.type = "ArgError")
                <=> (c.outcome.state = "thrown")
            /\ (c.outcome.error.type \in {"DuplicateRecordError",
                    "ConcurrencyControlError", "StoreError"})
                <=> (c.outcome.state = "rejected")
            /\ (c.outcome.error = NoError) <=> (c.outcome.state = "resolved")

\* C18, its case: a delete called without a valid version has thrown the
\* ArgError
C18_Witness ==
    \E p \in EndedCalls :
        LET c == calls[p]
        IN  /\ c.op = "delete"
            /\ c.outcome = Thrown(ArgError("Invalid version (arg #2)"))
            /\ c.sent = 0

\* C18 as stated: every call that fails, with whatever kind of error, ends
\* as a rejected promise.
C18_EveryFailureRejects ==
    \A p \in EndedCalls :
        calls[p].outcome.error # NoError
            => calls[p].outcome.state = "rejected"

\* the callers whose create or update has sent its request
StampingCalls ==
    {p \in Callers : calls[p].op \in {"create", "update"}
                     /\ calls[p].sent = 1}

\* C19: the username a create or an update stamps on its payload is the
\* username of the audit argument when audit is an object whose username is
\* a non-empty string, and else the username of the entity; and the username
\* of the entity is the one its constructor was given when that is a
\* non-empty string, and else "SYSTEM".
C19_ResolvedUsername ==
    /\ config.username =
           IF config.options.username \notin NonStrings
              /\ config.options.username # ""
           THEN config.options.username ELSE "SYSTEM"
    /\ \A p \in StampingCalls :
        LET c == calls[p]
            named == /\ c.audit.obj
                     /\ "username" \in DOMAIN c.audit.m
                     /\ c.audit.m["username"] \notin NonStrings
                     /\ c.audit.m["username"] # ""
        IN  Prop(c.request.payload, "__updatedBy") =
                IF named THEN c.audit.m["username"] ELSE config.username

\* C19, its case: an update called with an audit object whose username is the
\* empty string stamps the configured username of the entity
C19_Witness ==
    \E p \in StampingCalls :
        LET c == calls[p]
        IN  /\ c.op = "update"
            /\ c.audit = Obj([username |-> ""])
            /\ config.options.username = "admin"
            /\ c.request.payload["__updatedBy"] = "admin"

\* the keys of a recorded call are an object that holds no value under f
HoldsNo(c, f) == c.raw.keys.obj /\ Prop(c.raw.keys.m, f) = Undefined

\* a recorded call whose arguments other than the range key are well formed
RestWellFormed(c) ==
    /\ c.raw.keys.obj
    /\ KeyValue(Prop(c.raw.keys.m, config.hashKeyName))
    /\ c.op = "create" => c.raw.props.obj
    /\ c.op = "update" => c.raw.updateProps.obj /\ c.raw.deleteProps.obj
    /\ c.op \in {"update", "delete"} => ~VersionBad(c)

\* C20: on an entity with a range key field, a create, lookup, update or
\* delete whose keys hold no range-key value throws an ArgError and sends
\* nothing (the error names the range key when the other arguments are well
\* formed), and a list whose keys hold a hash key and no range-key value is
\* sent; on an entity without a range key field no call fails over a range
\* key, and every call whose other arguments are well formed is sent
\* (but for an update that selects no field, which resolves at once).
C20_RangeKeyRequiredExceptList ==
    \A p \in EndedTraced :
        LET c == calls[p]
        IN  IF config.rangeKeyName # Undefined
            THEN LET message == "Invalid range key (keys."
                                    \o config.rangeKeyName \o ")"
                 IN  HoldsNo(c, config.rangeKeyName)
                     => IF c.op = "list"
                        THEN RestWellFormed(c)
                                => /\ c.sent = 1
                                   /\ c.outcome.state # "thrown"
                        ELSE /\ c.outcome.state = "thrown"
                             /\ c.outcome.error.type = "ArgError"
                             /\ c.sent = 0
                             /\ RestWellFormed(c)
                                    => c.outcome.error.message = message
            ELSE /\ c.outcome.state = "thrown"
                    => c.outcome.error.message
                           \notin {"Invalid range key (keys." \o f \o ")" :
                                       f \in {"accountId", "entityId"}}
                 /\ RestWellFormed(c)
                        => /\ c.outcome.state # "thrown"
                           /\ c.sent = 1 \/ (c.op = "update"
                                              /\ c.properties = {})

\* C20, its case: on the entity with a range key field, a lookup whose keys
\* hold the hash key alone has thrown over the range key
C20_Witness ==
    \E p \in EndedTraced :
        LET c == calls[p]
        IN  /\ config.rangeKeyName = "entityId"
            /\ c.op = "lookup"
            /\ c.raw.keys = Obj([accountId |-> "a"])
            /\ c.outcome =
                   Thrown(ArgError("Invalid range key (keys.entityId)"))

\* the list half of the case: the same keys given to list are sent
C20_ListAccepted ==
    \E p \in EndedTraced :
        LET c == calls[p]
        IN  /\ config.rangeKeyName = "entityId"
            /\ c.op = "list"
            /\ c.raw.keys = Obj([accountId |-> "a"])
            /\ c.sent = 1

\* the callers whose list has been sent, with its arguments recorded
TracedLists ==
    {p \in Callers : /\ calls[p].op = "list"
                     /\ calls[p].raw.traced
                     /\ calls[p].sent = 1}

\* C21: the query of a list carries a limit exactly when count is a number
\* greater than zero, the limit is then count and the list resolves with at
\* most count records; for every other count (undefined, no number, zero,
\* negative) the query carries no limit.
C21_LimitIffPositiveCount ==
    \A p \in TracedLists :
        LET c == calls[p]
            count == c.raw.count
            positive == count \in Numbers /\ NumberValue(count) > 0
        IN  /\ positive
                => /\ c.request.limit = count
                   /\ c.outcome.state = "resolved"
                          => Len(c.outcome.value) <= NumberValue(count)
            /\ ~positive => c.request.limit = Undefined

\* C21, its case: a list with count 1 of a hash key that holds two active
\* records has resolved with one record
C21_Witness ==
    \E p \in TracedLists :
        LET c == calls[p]
        IN  /\ c.raw.count = "#1"
            /\ c.raw.keys = Obj([accountId |-> "a"])
            /\ IsActive(table[<<"a", "#1">>])
            /\ IsActive(table[<<"a", "#2">>])
            /\ c.outcome.state = "resolved"
            /\ Len(c.outcome.value) = 1

\* the other half of the case: the same list without a count resolves with
\* both records
C21_Unlimited ==
    \E p \in TracedLists :
        LET c == calls[p]
        IN  /\ c.raw.count \in {Undefined, "#0", "#-1", OtherType}
            /\ c.request.limit = Undefined
            /\ c.outcome.state = "resolved"
            /\ Len(c.outcome.value) = 2

\* the range keys of the records of a page, in the order of the page
PageRanges(page) == [i \in 1..Len(page) |-> page[i][config.rangeKeyName]]

\* the range keys under hash key h whose records are stored, are active and
\* come after range key r (after nothing when r is undefined)
ActiveAfter(h, r) ==
    {k \in RangeVals : /\ IsActive(table[<<h, k>>])
                       /\ r # Undefined => NumberValue(k) > NumberValue(r)}

\* C22: a list that is sent carries a resume token exactly when the entity
\* has a range key field and keys holds a range-key value, and the token is
\* then the attribute values of {hashKeyName: hashKey, rangeKeyName:
\* rangeKey}. On an entity with a range key field the page a list resolves
\* with holds active records of the hash key that come after the range key
\* of keys, in range key order and without leaving one out before the last
\* of the page; it holds all of them, from the first record of the hash key
\* on when keys holds no range key, when no limit was set.
C22_ResumeAfterRangeKey ==
    \A p \in Callers :
        LET c == calls[p]
            hashKey == Prop(c.keys, config.hashKeyName)
            rangeKey == IF config.rangeKeyName = Undefined THEN Undefined
                        ELSE Prop(c.keys, config.rangeKeyName)
            typed(v) == IF v \in Numbers THEN "N" ELSE "S"
        IN  (c.op = "list" /\ c.sent = 1)
            => /\ rangeKey = Undefined <=> c.request.resume = NoResume
               /\ rangeKey # Undefined
                    => /\ DOMAIN c.request.resume
                              = {config.hashKeyName, config.rangeKeyName}
                       /\ \A f \in DOMAIN c.request.resume :
                            /\ c.request.resume[f].type = typed(c.keys[f])
                            /\ ConverterOutput(c.request.resume[f])
                                   = c.keys[f]
               /\ (/\ config.rangeKeyName # Undefined
                   /\ c.pc = "settled"
                   /\ c.outcome.state = "resolved")
                    => LET page == PageRanges(c.outcome.value)
                           got == {page[i] : i \in 1..Len(page)}
                           all == ActiveAfter(hashKey, rangeKey)
                       IN  /\ \A i \in 1..Len(page) :
                                c.outcome.value[i][config.hashKeyName]
                                    = hashKey
                           /\ \A i, j \in 1..Len(page) :
                                i < j => NumberValue(page[i])
                                             < NumberValue(page[j])
                           /\ got \subseteq all
                           /\ \A k \in all \ got, g \in got :
                                NumberValue(k) > NumberValue(g)
                           /\ c.request.limit = Undefined => got = all

\* C22, its case: both records of the hash key are active, and a list whose
\* keys hold the range key of the first has resolved with the second alone
C22_Witness ==
    \E p \in Callers :
        LET c == calls[p]
        IN  /\ c.op = "list"
            /\ c.keys = [accountId |-> "a", entityId |-> "#1"]
            /\ c.request.resume =
                   [accountId |-> [type |-> "S", value |-> "a"],
                    entityId |-> [type |-> "N", value |-> "1"]]
            /\ IsActive(table[<<"a", "#1">>])
            /\ IsActive(table[<<"a", "#2">>])
            /\ c.outcome.state = "resolved"
            /\ Len(c.outcome.value) = 1
            /\ c.outcome.value[1]["entityId"] = "#2"

\* the other half of the case: a list whose keys hold the hash key alone
\* has resolved with both records, the first one first
C22_FromTheFirst ==
    \E p \in Callers :
        LET c == calls[p]
        IN  /\ c.op = "list"
            /\ c.keys = [accountId |-> "a"]
            /\ c.request.resume = NoResume
            /\ c.outcome.state = "resolved"
            /\ Len(c.outcome.value) = 2
            /\ c.outcome.value[1]["entityId"] = "#1"

\* the reserved metadata fields, and the three of them update() stamps
Reserved ==
    {"__status", "__version", "__createdBy", "__createDate", "__updatedBy",
     "__updateDate"}

Stamped == {"__version", "__updatedBy", "__updateDate"}

Dates == {DateOf(t) : t \in 0..MaxClock}

\* the callers whose create or update was called with recorded arguments and
\* has written to the table
TracedWrites(ops) ==
    {p \in EvaluatedCalls(ops) : /\ calls[p].raw.traced
                                 /\ calls[p].outcome.state = "resolved"}

\* the reserved fields of the record a write has stored are the stamps of the
\* call, whatever the caller passed under their names
StampsOf(c, fields) ==
    /\ "__status" \in fields => c.post["__status"] = "active"
    /\ "__version" \in fields => c.post["__version"] = c.token
    /\ "__createdBy" \in fields => c.post["__createdBy"] = config.username
    /\ "__updatedBy" \in fields => c.post["__updatedBy"] = config.username
    /\ "__createDate" \in fields => c.post["__createDate"] \in Dates
    /\ "__updateDate" \in fields => c.post["__updateDate"] \in Dates

\* C23 (amended): a successful create stores its own stamps in all six
\* reserved fields, whatever props and keys hold under these names. A
\* successful update stores its own stamps in __version, __updatedBy and
\* __updateDate; it changes __status, __createdBy or __createDate only when
\* the update policy of the entity selects the field from updateProps, and
\* then to the value the caller supplied, or when the delete policy selects
\* it from deleteProps, and then the field is removed.
C23_ReservedSetByProtocolOrPolicy ==
    /\ \A p \in TracedWrites({"create"}) : StampsOf(calls[p], Reserved)
    /\ \A p \in TracedWrites({"update"}) :
        LET c == calls[p]
            updateProps == c.raw.updateProps.m
            deleteProps == c.raw.deleteProps.m
        IN  /\ StampsOf(c, Stamped)
            /\ \A f \in Reserved \ Stamped :
                Prop(c.post, f) # Prop(c.pre, f)
                    => \/ /\ f \in config.deleteCopier \cap DOMAIN deleteProps
                          /\ f \notin DOMAIN c.post
                       \/ /\ f \in config.updateCopier \cap DOMAIN updateProps
                          /\ f \notin config.deleteCopier \cap DOMAIN deleteProps
                          /\ c.post[f] = updateProps[f]

\* C23, its case: an update called with values for __status, __version,
\* __updatedBy and __createdBy has stored the caller's __status, its own
\* version and username, and has left __createdBy alone
C23_Witness ==
    \E p \in TracedWrites({"update"}) :
        LET c == calls[p]
        IN  /\ Prop(c.raw.updateProps.m, "__status") = "deleted"
            /\ Prop(c.raw.updateProps.m, "__version") = "hack"
            /\ Prop(c.raw.updateProps.m, "__createdBy") = "eve"
            /\ c.pre["__status"] = "active"
            /\ c.post["__status"] = "deleted"
            /\ c.post["__version"] = c.token
            /\ c.post["__updatedBy"] = config.username
            /\ c.post["__createdBy"] = c.pre["__createdBy"]

\* the create half of the case: props that name reserved fields
C23_CreateOverrides ==
    \E p \in TracedWrites({"create"}) :
        LET c == calls[p]
        IN  /\ Prop(c.raw.props.m, "__status") = "deleted"
            /\ Prop(c.raw.props.m, "__version") = "hack"
            /\ c.post["__status"] = "active"
            /\ c.post["__version"] = c.token

\* C23 as stated: no create and no update stores a value the caller
\* supplied for a reserved field; the reserved fields hold what the protocol
\* itself has set.
C23_ReservedNeverFromCaller ==
    /\ \A p \in TracedWrites({"create"}) : StampsOf(calls[p], Reserved)
    /\ \A p \in TracedWrites({"update"}) :
        /\ StampsOf(calls[p], Stamped)
        /\ \A f \in Reserved \ Stamped :
            Prop(calls[p].post, f) = Prop(calls[p].pre, f)

\* C24: the properties of the value a successful update resolves with are
\* the names the update policy selects from updateProps together with the
\* names the delete policy selects from deleteProps; none of them is
\* __version, __updatedBy or __updateDate, which the write carries besides.
C24_PropertiesAreSelectedNames ==
    \A p \in EndedUpdates :
        LET c == calls[p]
            selected ==
                (config.updateCopier \cap DOMAIN c.args.updateProps)
                \cup (config.deleteCopier \cap DOMAIN c.args.deleteProps)
        IN  c.outcome.state = "resolved"
                => /\ c.outcome.value.properties = selected
                   /\ c.outcome.value.properties
                          \cap {"__version", "__updatedBy", "__updateDate"}
                              = {}
                   /\ c.sent = 1
                        => DOMAIN c.request.payload
                               = selected \cup {"__version", "__updatedBy",
                                                "__updateDate"}

\* C24, its case: an update that has written resolved with the three names
\* its policies selected, one of them by the delete policy alone
C24_Witness ==
    \E p \in EndedUpdates :
        LET c == calls[p]
        IN  /\ c.evaluated
            /\ c.outcome.state = "resolved"
            /\ c.args.updateProps
                   = [__status |-> "active", tag |-> "z", count |-> "#2"]
            /\ c.args.deleteProps = [tag |-> "-", count |-> "-"]
            /\ c.outcome.value.properties = {"__status", "tag", "count"}
            /\ "__version" \in DOMAIN c.request.payload

\* the names both policies select from the arguments of an update
SelectedTwice(c) ==
    (config.updateCopier \cap DOMAIN c.args.updateProps)
    \cap (config.deleteCopier \cap DOMAIN c.args.deleteProps)

\* C25: for a field that the update policy selects from updateProps and the
\* delete policy selects from deleteProps, the write of update carries the
\* marker that removes the attribute, and after a successful update the
\* stored record does not have the field.
C25_DeleteWinsOverUpdate ==
    \A p \in Callers :
        LET c == calls[p]
        IN  (c.op = "update" /\ c.sent = 1)
                => \A f \in SelectedTwice(c) :
                    /\ c.request.payload[f] = DelMarker
                    /\ (c.evaluated /\ c.outcome.state = "resolved")
                            => f \notin DOMAIN c.post

\* C25, its case: tag was stored, updateProps set it to "z" and deleteProps
\* named it, and the record has no tag after the update
C25_Witness ==
    \E p \in EvaluatedCalls({"update"}) :
        LET c == calls[p]
        IN  /\ c.outcome.state = "resolved"
            /\ "tag" \in SelectedTwice(c)
            /\ c.args.updateProps["tag"] = "z"
            /\ Prop(c.pre, "tag") = "x"
            /\ "tag" \notin DOMAIN c.post
            /\ "tag" \notin DOMAIN table[TargetOf(c.request)]

\* the reading of the clock a stored date stands for
DateNumber(d) == CHOOSE t \in 0..MaxClock : DateOf(t) = d

\* the callers whose update has written to the table
WrittenUpdates ==
    {p \in EvaluatedCalls({"update"}) : calls[p].outcome.state = "resolved"}

\* C26: after a successful update that selects at least one field, the
\* stored __updatedBy is the username resolved for the call and the stored
\* __updateDate is the time of the call, not before the date it replaces;
\* __createdBy, __createDate, the hash key, the range key and every field
\* that neither policy selected are as they were before the update.
C26_UpdateStampsAndFrame ==
    \A p \in WrittenUpdates :
        LET c == calls[p]
            selected ==
                (config.updateCopier \cap DOMAIN c.args.updateProps)
                \cup (config.deleteCopier \cap DOMAIN c.args.deleteProps)
            kept == DOMAIN c.pre
                        \ (selected \cup {"__version", "__updatedBy",
                                          "__updateDate"})
        IN  /\ selected # {}
            /\ c.post["__updatedBy"] = ExpectedUsername(c.audit)
            /\ c.post["__updateDate"] \in Dates
            /\ DateNumber(c.post["__updateDate"])
                   >= DateNumber(c.pre["__updateDate"])
            /\ DateNumber(c.post["__updateDate"]) <= now
            /\ {"__createdBy", "__createDate", config.hashKeyName} \subseteq kept
            /\ config.rangeKeyName # Undefined => config.rangeKeyName \in kept
            /\ \A f \in kept : f \in DOMAIN c.post /\ c.post[f] = c.pre[f]

\* C26, its case: a record created by the entity's default user at time 0
\* was updated by "joe" at time 1
C26_Witness ==
    \E p \in WrittenUpdates :
        LET c == calls[p]
        IN  /\ c.audit = Obj([username |-> "joe"])
            /\ c.pre["__createdBy"] = config.username
            /\ c.pre["__updatedBy"] = config.username
            /\ c.pre["__updateDate"] = DateOf(0)
            /\ c.post["__updatedBy"] = "joe"
            /\ c.post["__updateDate"] = DateOf(1)
            /\ c.post["__createdBy"] = config.username
            /\ c.post["__createDate"] = DateOf(0)

\* C27: the record a successful create has stored holds the same value in
\* __createDate and __updateDate.
C27_CreateDatesEqual ==
    \A p \in EvaluatedCalls({"create"}) :
        LET c == calls[p]
        IN  c.outcome.state = "resolved"
                => c.post["__createDate"] = c.post["__updateDate"]

\* what holds of the two dates instead: __updateDate is read from the clock
\* after __createDate, and neither is later than the present
C27_CreateDatesInOrder ==
    \A p \in EvaluatedCalls({"create"}) :
        LET c == calls[p]
        IN  c.outcome.state = "resolved"
                => /\ DateNumber(c.post["__createDate"])
                          <= DateNumber(c.post["__updateDate"])
                   /\ DateNumber(c.post["__updateDate"]) <= now

\* the callers whose create has sent its insert, with its arguments recorded
TracedCreates ==
    {p \in Callers : /\ calls[p].op = "create"
                     /\ calls[p].raw.traced
                     /\ calls[p].sent = 1}

\* C28: the payload create inserts has the fields of props, of keys and the
\* six reserved fields; a reserved field holds the stamp of the call whatever
\* props and keys hold under its name, any other field of keys holds the
\* value of keys, also when props has the field, and the remaining fields
\* hold the values of props. A successful create stores this payload.
C28_PayloadOverlay ==
    \A p \in TracedCreates :
        LET c == calls[p]
            props == c.raw.props.m
            keys == c.raw.keys.m
            payload == c.request.payload
        IN  /\ DOMAIN payload = DOMAIN props \cup DOMAIN keys \cup Reserved
            /\ payload["__status"] = "active"
            /\ payload["__version"] = c.token
            /\ payload["__createdBy"] = ExpectedUsername(c.audit)
            /\ payload["__updatedBy"] = ExpectedUsername(c.audit)
            /\ payload["__createDate"] \in Dates
            /\ payload["__updateDate"] \in Dates
            /\ \A f \in DOMAIN keys \ Reserved : payload[f] = keys[f]
            /\ \A f \in DOMAIN props \ (DOMAIN keys \cup Reserved) :
                payload[f] = props[f]
            /\ (c.evaluated /\ c.outcome.state = "resolved")
                    => c.post = payload

\* C28, its case: props and keys both hold accountId and __status, and the
\* record stored has the accountId of keys, the tag of props and the status
\* of the protocol
C28_Witness ==
    \E p \in TracedCreates :
        LET c == calls[p]
        IN  /\ c.raw.props.m["accountId"] = "b"
            /\ c.raw.keys.m["accountId"] = "a"
            /\ Prop(c.raw.props.m, "__status") = "deleted"
            /\ Prop(c.raw.keys.m, "__status") = "deleted"
            /\ c.evaluated
            /\ c.outcome.state = "resolved"
            /\ c.post["accountId"] = "a"
            /\ c.post["tag"] = c.raw.props.m["tag"]
            /\ c.post["__status"] = "active"

-----------------------------------------------------------------------------
(* The key extraction of Entity, called by itself *)

\* the values a key field is given, and the keys objects made of them
KeyFieldInputs == {"a", "", "#-1", "#0", "#1", OtherType}

KeyObjects ==
    UNION {[fields -> KeyFieldInputs] :
               fields \in SUBSET {"accountId", "entityId"}}

\* what a method that is no promise ends with: the value it returns
Returned(value) ==
    [state |-> "returned", value |-> [result |-> value], error |-> NoError]

ReturnedOrThrown(r) == IF r.err # NoError THEN Thrown(r.err)
                       ELSE Returned(r.value)

\* entity._getHashKey(keys)
GetHashKeyCall(p) ==
    /\ calls[p].pc = "idle"
    /\ \E keys \in KeyObjects :
        calls' = [calls EXCEPT ![p] =
            [IdleCall EXCEPT !.pc = "settled", !.op = "_getHashKey",
                !.raw = [NoRaw EXCEPT !.traced = TRUE, !.keys = Obj(keys)],
                !.outcome = ReturnedOrThrown(GetHashKey(config, keys))]]
    /\ UNCHANGED <<config, table, now, generated, versions>>

\* entity._getRangeKey(keys, allowUndefined)
GetRangeKeyCall(p) ==
    /\ calls[p].pc = "idle"
    /\ \E keys \in KeyObjects, allowUndefined \in BOOLEAN :
        calls' = [calls EXCEPT ![p] =
            [IdleCall EXCEPT !.pc = "settled", !.op = "_getRangeKey",
                !.raw = [NoRaw EXCEPT !.traced = TRUE, !.keys = Obj(keys),
                            !.allowUndefined = allowUndefined],
                !.outcome = ReturnedOrThrown(
                                GetRangeKey(config, keys, allowUndefined))]]
    /\ UNCHANGED <<config, table, now, generated, versions>>

\* one caller of the two methods, with every keys object
NextKeys ==
    \E p \in {"c1"} :
        \/ GetHashKeyCall(p)
        \/ GetRangeKeyCall(p)
        \/ Return(p)

SpecKeys == Init /\ [][NextKeys]_vars

\* the callers whose call of the method has ended
KeyCalls(method) ==
    {p \in Callers : calls[p].pc = "settled" /\ calls[p].op = method}

IsString(v) == v \notin Numbers \cup {Undefined, OtherType}

\* C29 (amended): _getHashKey returns keys[hashKeyName] when that value is a
\* non-empty string or a number of at least 1, and throws an ArgError that
\* names the hash key field in every other case: the field is absent, holds
\* a value of another type, the empty string, or a number below 1.
C29_HashKeyNonEmptyOrThrows ==
    \A p \in KeyCalls("_getHashKey") :
        LET c == calls[p]
            v == Prop(c.raw.keys.m, config.hashKeyName)
            accepted == \/ IsString(v) /\ v # ""
                        \/ v \in Numbers /\ NumberValue(v) >= 1
        IN  IF accepted
            THEN /\ c.outcome.state = "returned"
                 /\ c.outcome.value.result = v
            ELSE /\ c.outcome.state = "thrown"
                 /\ c.outcome.error
                        = ArgError("Invalid hash key (keys."
                                   \o config.hashKeyName \o ")")

\* C29, its case: the hash key of keys is the empty string, and the call has
\* thrown
C29_Witness ==
    \E p \in KeyCalls("_getHashKey") :
        LET c == calls[p]
        IN  /\ config.hashKeyName = "accountId"
            /\ Prop(c.raw.keys.m, "accountId") = ""
            /\ c.outcome.state = "thrown"
            /\ c.outcome.error.message = "Invalid hash key (keys.accountId)"

\* the other cases: a string and a number are returned as they are
C29_Returned ==
    \E p \in KeyCalls("_getHashKey") :
        /\ calls[p].outcome.state = "returned"
        /\ calls[p].outcome.value.result \in {"a", "#1"}

\* C29 as stated: _getHashKey returns keys[hashKeyName] whenever that value
\* is a string or a number, and throws an ArgError that names the hash key
\* field whenever the field is absent or holds a value of another type.
C29_HashKeyStringOrNumber ==
    \A p \in KeyCalls("_getHashKey") :
        LET c == calls[p]
            v == Prop(c.raw.keys.m, config.hashKeyName)
        IN  IF IsString(v) \/ v \in Numbers
            THEN /\ c.outcome.state = "returned"
                 /\ c.outcome.value.result = v
            ELSE /\ c.outcome.state = "thrown"
                 /\ c.outcome.error
                        = ArgError("Invalid hash key (keys."
                                   \o config.hashKeyName \o ")")

\* C30: on an entity without a range key field _getRangeKey returns
\* undefined, whatever keys holds and whatever allowUndefined is. On an
\* entity with a range key field, a value that is absent is returned as
\* undefined when allowUndefined is true and throws an ArgError that names
\* the range key field when it is false; a value that is present and is no
\* string and no number throws that ArgError also when allowUndefined is
\* true; and whatever is returned is undefined or the value of keys.
C30_RangeKeyExtraction ==
    \A p \in KeyCalls("_getRangeKey") :
        LET c == calls[p]
            allowUndefined == c.raw.allowUndefined
            throws == /\ c.outcome.state = "thrown"
                      /\ c.outcome.error
                             = ArgError("Invalid range key (keys."
                                        \o config.rangeKeyName \o ")")
            returns(v) == /\ c.outcome.state = "returned"
                          /\ c.outcome.value.result = v
        IN  IF config.rangeKeyName = Undefined
            THEN returns(Undefined)
            ELSE LET v == Prop(c.raw.keys.m, config.rangeKeyName)
                 IN  /\ (v = Undefined /\ allowUndefined)
                            => returns(Undefined)
                     /\ (v = Undefined /\ ~allowUndefined) => throws
                     /\ (v # Undefined /\ ~IsString(v) /\ v \notin Numbers)
                            => throws
                     /\ throws \/ returns(v)
                     /\ (v \in {"a", "#1"}) => returns(v)

\* C30, its case: on the entity with a range key field, a range key of
\* another type has thrown although allowUndefined was true
C30_Witness ==
    \E p \in KeyCalls("_getRangeKey") :
        LET c == calls[p]
        IN  /\ config.rangeKeyName = "entityId"
            /\ c.raw.allowUndefined
            /\ Prop(c.raw.keys.m, "entityId") = OtherType
            /\ c.outcome.state = "thrown"
            /\ c.outcome.error.message = "Invalid range key (keys.entityId)"

\* the other cases: no range key field, and an absent value that is allowed
C30_NoRangeKeyField ==
    \E p \in KeyCalls("_getRangeKey") :
        LET c == calls[p]
        IN  /\ config.rangeKeyName = Undefined
            /\ ~c.raw.allowUndefined
            /\ Prop(c.raw.keys.m, "accountId") = OtherType
            /\ c.outcome.state = "returned"
            /\ c.outcome.value.result = Undefined

C30_AbsentAllowed ==
    \E p \in KeyCalls("_getRangeKey") :
        LET c == calls[p]
        IN  /\ config.rangeKeyName = "entityId"
            /\ c.raw.allowUndefined
            /\ "entityId" \notin DOMAIN c.raw.keys.m
            /\ c.outcome.state = "returned"
            /\ c.outcome.value.result = Undefined

-----------------------------------------------------------------------------
(* Entity._execQuery, called by itself with a query that settles as the
   caller of the query decides *)

\* what the query resolves with, and the codes of the errors it rejects
\* with: an error need not have a code
QueryValues == {EmptyObj, CreatedEarlier(config), DeletedEarlier(config)}
QueryCodes == OtherStoreCodes \cup {ConditionalCheckFailed, Undefined}

QueryResponses ==
    {OkResponse(v) : v \in QueryValues} \cup {ErrResponse(e) : e \in QueryCodes}

\* entity._execQuery(query, logger): the check of query, the start event and
\* the call of query()
ExecQueryCall(p) ==
    /\ calls[p].pc = "idle"
    /\ \E isFunction \in BOOLEAN :
        calls' = [calls EXCEPT ![p] =
            IF ~isFunction
            THEN FailedCall("_execQuery", ArgError("Invalid query (arg #1)"))
            ELSE [IdleCall EXCEPT !.pc = "inflight", !.op = "_execQuery",
                     !.sent = 1, !.log = ExecQueryStart]]
    /\ UNCHANGED <<config, table, now, generated, versions>>

\* the promise of query() settles
QueryAnswers(p) ==
    /\ calls[p].pc = "inflight"
    /\ calls[p].op = "_execQuery"
    /\ \E response \in QueryResponses :
        calls' = [calls EXCEPT ![p] =
            [@ EXCEPT !.pc = "answered", !.response = response]]
    /\ UNCHANGED <<config, table, now, generated, versions>>

\* the callback of query().then() runs: it logs, and returns the results or
\* throws the error, which settles the promise of _execQuery
ExecQueryThen(p) ==
    /\ calls[p].pc = "answered"
    /\ calls' = [calls EXCEPT ![p] =
           [@ EXCEPT !.pc = "settled",
               !.log = @ \o ExecQueryLog(calls[p].response),
               !.outcome = ExecQuery(calls[p].response)]]
    /\ UNCHANGED <<config, table, now, generated, versions>>

NextExecQuery ==
    \E p \in Callers :
        \/ ExecQueryCall(p)
        \/ QueryAnswers(p)
        \/ ExecQueryThen(p)
        \/ Return(p)

SpecExecQuery == Init /\ [][NextExecQuery]_vars

\* the callers of _execQuery whose query was called
ExecQueryCalls ==
    {p \in Callers : calls[p].op = "_execQuery" /\ calls[p].sent = 1}

\* the events of a log at a level
AtLevel(log, level) == {i \in 1..Len(log) : log[i].level = level}

C31_Resolved ==
    \E p \in ExecQueryCalls :
        LET c == calls[p]
        IN  /\ c.response.data = CreatedEarlier(config)
            /\ c.outcome = Resolved(CreatedEarlier(config))
            /\ Len(c.log) = 2

\* the identities whose stored record is not active
InactiveIds ==
    {id \in IdSpace : table[id] # NoItem /\ ~IsActive(table[id])}

\* a step in which the table answers the create, update or delete of p
Answered(p) ==
    /\ calls[p].pc = "inflight"
    /\ calls'[p].pc = "settled"
    /\ calls'[p].evaluated
    /\ calls'[p].op \in {"create", "update", "delete"}

\* C32: a stored record whose __status is not "active" is the same record
\* after every step; a create the table answers on its identity is rejected
\* with a DuplicateRecordError, and an update or a delete the table answers
\* on it is rejected with a ConcurrencyControlError, also when it was called
\* with the version of the record.
C32_InactiveRecordFrozen ==
    [][/\ \A id \in InactiveIds : table'[id] = table[id]
       /\ \A p \in Callers :
            (Answered(p) /\ TargetOf(calls[p].request) \in InactiveIds)
                => calls'[p].outcome =
                       IF calls[p].op = "create"
                       THEN Rejected(DuplicateRecordError)
                       ELSE Rejected(ConcurrencyControlError)]_vars

\* C32, its case: a delete called with the version of the record that is not
\* active was answered and rejected, and the record is still stored
C32_Witness ==
    \E p \in EvaluatedCalls({"delete"}) :
        LET c == calls[p]
        IN  /\ c.pre # NoItem /\ ~IsActive(c.pre)
            /\ VersionIs(c.pre, c.version)
            /\ c.outcome = Rejected(ConcurrencyControlError)
            /\ table[TargetOf(c.request)] = c.pre

\* the create half of the case
C32_CreateOnInactive ==
    \E p \in EvaluatedCalls({"create"}) :
        LET c == calls[p]
        IN  /\ c.pre # NoItem /\ ~IsActive(c.pre)
            /\ c.outcome = Rejected(DuplicateRecordError)
            /\ table[TargetOf(c.request)] = c.pre

\* C33: an identity that holds no record gets one only in a step in which
\* the table answers a create for that identity; an update the table answers
\* on an identity that holds no record is rejected with a
\* ConcurrencyControlError, and the identity still holds no record.
C33_OnlyCreateCreates ==
    [][/\ \A id \in IdSpace :
            (table[id] = NoItem /\ table'[id] # NoItem)
                => \E p \in Callers :
                    /\ Answered(p)
                    /\ calls[p].op = "create"
                    /\ TargetOf(calls[p].request) = id
                    /\ calls'[p].outcome.state = "resolved"
       /\ \A p \in Callers :
            (/\ Answered(p)
             /\ calls[p].op = "update"
             /\ table[TargetOf(calls[p].request)] = NoItem)
                => /\ calls'[p].outcome = Rejected(ConcurrencyControlError)
                   /\ table'[TargetOf(calls[p].request)] = NoItem]_vars

\* C33, its case: an update that selects fields was answered on an identity
\* without a record and rejected, and the identity holds no record
C33_Witness ==
    \E p \in EvaluatedCalls({"update"}) :
        LET c == calls[p]
        IN  /\ c.pre = NoItem
            /\ c.properties # {}
            /\ c.outcome = Rejected(ConcurrencyControlError)
            /\ table[TargetOf(c.request)] = NoItem

\* the write of q was answered on the record as the update of p had left it
Follows(q, p) ==
    /\ p # q
    /\ p \in WrittenUpdates
    /\ q \in EvaluatedCalls({"update", "delete"})
    /\ calls[q].pre = calls[p].post

\* C34: an update or a delete that the table answers on the record as a
\* successful update has left it, called with the __version of the value
\* that update resolved with, is rejected with a ConcurrencyControlError and
\* leaves the record as it was; the one that succeeds was called with the
\* version the update has stored, which is what a lookup or a list of the
\* record shows.
C34_ResultVersionIsStale ==
    \A p, q \in Callers :
        Follows(q, p)
            => LET u == calls[p]
                   w == calls[q]
               IN  /\ u.outcome.value["__version"] # u.post["__version"]
                   /\ w.version = u.outcome.value["__version"]
                        => /\ w.outcome = Rejected(ConcurrencyControlError)
                           /\ w.post = w.pre
                   /\ w.outcome.state = "resolved"
                        => w.version = u.post["__version"]

\* C34, its case: an update resolved with version "w1", and the delete that
\* followed it with "w1" was rejected
C34_Witness ==
    \E p, q \in Callers :
        /\ Follows(q, p)
        /\ calls[q].op = "delete"
        /\ calls[p].outcome.value["__version"] = "w1"
        /\ calls[q].version = "w1"
        /\ calls[q].outcome = Rejected(ConcurrencyControlError)
        /\ table[TargetOf(calls[q].request)] = calls[p].post

\* the other case: the update that followed with the stored version succeeded
C34_FreshVersionSucceeds ==
    \E p, q \in Callers :
        /\ Follows(q, p)
        /\ calls[q].op = "update"
        /\ calls[q].version = calls[p].token
        /\ calls[q].outcome.state = "resolved"

\* the record stored under the keys of an update
StoredFor(c) == table[KeyOf(config, c.keys)]

\* C35: an update with well-formed arguments for which the policies select
\* no field resolves, whatever is stored under its keys: nothing, a record
\* that is not active, or a record with another version; an update that was
\* rejected with a ConcurrencyControlError had selected a field.
C35_EmptyUpdateAlwaysResolves ==
    \A p \in EndedUpdates :
        LET c == calls[p]
        IN  /\ SelectsNothing(c)
                => /\ c.outcome.state = "resolved"
                   /\ c.outcome.error = NoError
                   /\ c.response = NoResponse
            /\ c.outcome = Rejected(ConcurrencyControlError)
                => ~SelectsNothing(c) /\ c.properties # {}

\* C35, its case: an update that selects nothing, called with another
\* version than that of the stored record, which is not active, has resolved
C35_Witness ==
    \E p \in EndedUpdates :
        LET c == calls[p]
        IN  /\ SelectsNothing(c)
            /\ StoredFor(c) # NoItem
            /\ ~IsActive(StoredFor(c))
            /\ ~VersionIs(StoredFor(c), c.version)
            /\ c.outcome.state = "resolved"

\* the other case: nothing is stored under the keys
C35_OnNothing ==
    \E p \in EndedUpdates :
        LET c == calls[p]
        IN  /\ SelectsNothing(c)
            /\ StoredFor(c) = NoItem
            /\ c.outcome.state = "resolved"

\* the metadata fields and the policies of the entity have nothing in common
\* but __status, which an update policy may select to delete logically
PoliciesKeepMetadata ==
    /\ config.updateCopier \cap Reserved \subseteq {"__status"}
    /\ config.deleteCopier \cap Reserved = {}

\* C36: in every reachable state of the table every stored record is stored
\* under the identity its own key fields name, so that an identity has at
\* most one record, and has the six metadata fields, with a __version that
\* is a non-empty string; the policies remove no metadata field.
C36_RecordsWellFormed ==
    PoliciesKeepMetadata =>
        \A id \in IdSpace :
            table[id] # NoItem
                => /\ KeyOf(config, table[id]) = id
                   /\ Reserved \subseteq DOMAIN table[id]
                   /\ \A f \in Reserved : table[id][f] \notin {Undefined, DelMarker}
                   /\ checkString(table[id]["__version"])

\* C36, its case: the policies select no metadata field, and a record that
\* a create has stored was rewritten by an update that removed a field
C36_Witness ==
    /\ (config.updateCopier \cup config.deleteCopier) \cap Reserved = {}
    /\ \E p \in EvaluatedCalls({"update"}) :
        LET c == calls[p]
        IN  /\ c.outcome.state = "resolved"
            /\ DelMarker \in {c.request.payload[f] : f \in DOMAIN c.request.payload}
            /\ c.post # NoItem
            /\ c.post = table[KeyOf(config, c.keys)]
            /\ c.post["__createDate"] # c.post["__updateDate"]

\* the callers whose create has stored a record that an update or delete of
\* another caller then found as it was created
Reincarnations ==
    {<<p, q>> \in EvaluatedCalls({"create"}) \X EvaluatedCalls({"update", "delete"}) :
        /\ calls[p].outcome.state = "resolved"
        /\ calls[p].post # NoItem
        /\ TargetOf(calls[q].request) = TargetOf(calls[p].request)
        /\ calls[q].pre = calls[p].post}

\* the versions the identity of a create held before the create: those of
\* the records that were removed from it
BuriedVersions(c) ==
    versions[TargetOf(c.request)] \ {c.post["__version"]}

\* a step gives an identity a version only if the identity has never held it
FreshVersions ==
    \A id \in IdSpace :
        (/\ table'[id] # NoItem
         /\ ~VersionIs(table[id], table'[id]["__version"]))
            => table'[id]["__version"] \notin versions[id]

\* after the step, a write on a re-created record that carried a version of
\* a removed record has failed and the record is as it was created
OldVersionsRefused ==
    \A pq \in Reincarnations :
        LET created == calls[pq[1]]
            write == calls[pq[2]]
        IN  write.version \in BuriedVersions(created)
                => /\ write.outcome = Rejected(ConcurrencyControlError)
                   /\ write.post = created.post
                   /\ table[TargetOf(created.request)] = created.post

\* C37: the version of a record that was removed is never the version of a
\* record created later under the same identity: create stores a version the
\* identity has never held, and an update or delete that carries a version
\* of a removed record is rejected with a ConcurrencyControlError and leaves
\* the new record as it was created.
C37_OldIncarnationVersionNeverMatches ==
    [][FreshVersions /\ OldVersionsRefused']_vars

\* C37, its case: a record was removed and created again, and a write with
\* the version of the removed record was refused
C37_Witness ==
    \E pq \in Reincarnations :
        LET created == calls[pq[1]]
            write == calls[pq[2]]
        IN  /\ write.version \in BuriedVersions(created)
            /\ write.version # created.post["__version"]
            /\ write.outcome = Rejected(ConcurrencyControlError)
            /\ table[TargetOf(created.request)] = created.post

\* the same with a delete as the write
C37_DeleteRefused ==
    \E pq \in Reincarnations :
        /\ calls[pq[2]].op = "delete"
        /\ calls[pq[2]].version \in BuriedVersions(calls[pq[1]])
        /\ calls[pq[2]].outcome = Rejected(ConcurrencyControlError)

-----------------------------------------------------------------------------
(* The settling of a call, step by step: the client calls back, and then the
   callbacks of the promises run *)

\* the table evaluates the request of a call, or the request fails before
\* that, and the client calls back: the promise of query() settles
StoreAnswers(p) ==
    /\ calls[p].pc = "inflight"
    /\ LET req == calls[p].request
           done == Evaluate(config, table, req)
           id == TargetOf(req)
           single == req.action # "query"
       IN  \/ /\ table' = done.table
              /\ calls' = [calls EXCEPT ![p] =
                     [@ EXCEPT !.pc = "answered", !.response = done.response,
                         !.evaluated = TRUE,
                         !.pre = IF single THEN table[id] ELSE NoItem,
                         !.post = IF single THEN done.table[id] ELSE NoItem]]
              /\ versions' =
                     IF single /\ done.table[id] # NoItem
                     THEN [versions EXCEPT ![id] =
                              @ \cup {done.table[id]["__version"]}]
                     ELSE versions
           \/ /\ \E code \in FailureCodes(req) :
                   calls' = [calls EXCEPT ![p] =
                       [@ EXCEPT !.pc = "answered",
                           !.response = ErrResponse(code)]]
              /\ UNCHANGED <<table, versions>>
    /\ UNCHANGED <<config, now, generated>>

\* callbacks that run only when query() resolved
ThenCallbacks_OnlyOnResults(p) ==
    /\ calls[p].pc = "answered"
    /\ calls[p].response.err = ""
    /\ calls' = [calls EXCEPT ![p] =
           [@ EXCEPT !.pc = "settled",
               !.log = @ \o ExecQueryLog(calls[p].response),
               !.outcome = SettleCall(calls[p], calls[p].response)]]
    /\ UNCHANGED <<config, table, now, generated, versions>>

\* the callbacks of query().then() in _execQuery and of _execQuery().then()
\* in the method run, which settles the promise the method returned
ThenCallbacks(p) ==
    /\ calls[p].pc = "answered"
    /\ calls' = [calls EXCEPT ![p] =
           [@ EXCEPT !.pc = "settled",
               !.log = @ \o ExecQueryLog(calls[p].response),
               !.outcome = SettleCall(calls[p], calls[p].response)]]
    /\ UNCHANGED <<config, table, now, generated, versions>>

\* one caller whose calls have well-formed arguments
NextSettle ==
    \E p \in {"c1"} :
        \/ CreateCall(p, OneRecordInputs)
        \/ LookupCall(p, OneRecordInputs)
        \/ ListCall(p, OneRecordInputs)
        \/ UpdateCall(p, OneRecordInputs)
        \/ DeleteCall(p, OneRecordInputs)
        \/ StoreAnswers(p)
        \/ ThenCallbacks(p)
        \/ Return(p)

\* the callbacks of a settled promise are run; nothing is assumed of the
\* table, which may never answer
SpecSettle ==
    Init /\ [][NextSettle]_vars /\ WF_vars(ThenCallbacks("c1"))

\* the completion and error events in the log of a call
SettleEvents(c) == AtLevel(c.log, "info") \cup AtLevel(c.log, "error")

\* the promise of a call has settled
HasSettled(c) == c.outcome.state \in {"resolved", "rejected"}

\* a call has sent at most one request; as long as the client has not called
\* back and the callbacks have not run its promise is pending and nothing is
\* logged of an end; once they have run it has resolved or rejected, after
\* one event of the end of the query
SettledOnce(c) ==
    /\ c.sent <= 1
    /\ c.pc \in {"inflight", "answered"}
        => c.sent = 1 /\ c.outcome = Pending /\ SettleEvents(c) = {}
    /\ c.pc = "settled" /\ c.sent = 1
        => HasSettled(c) /\ Cardinality(SettleEvents(c)) = 1

\* a settled promise keeps its outcome until the caller calls again
OutcomeKept ==
    \A p \in Callers :
        HasSettled(calls[p])
            => \/ calls'[p].outcome = calls[p].outcome
               \/ calls'[p] = IdleCall

\* C38: a call with well-formed arguments sends one request at most; once
\* the client has called back for it, the promise the call returned
\* eventually resolves or rejects; it settles once: it is pending until then,
\* one end of the query is logged, and the outcome does not change afterwards.
C38_SettlesExactlyOnce ==
    /\ \A p \in {"c1"} :
           (calls[p].pc = "answered")
               ~> (calls[p].pc = "settled" /\ HasSettled(calls[p]))
    /\ [](\A p \in Callers : SettledOnce(calls[p]))
    /\ [][OutcomeKept]_vars

\* C38, its case: the client called back with an error for the request of a
\* call, and the promise of the call has rejected
C38_Witness ==
    \E p \in Callers :
        /\ calls[p].pc = "settled"
        /\ calls[p].sent = 1
        /\ calls[p].response.err # ""
        /\ calls[p].response # NoResponse
        /\ calls[p].outcome.state = "rejected"
        /\ Cardinality(SettleEvents(calls[p])) = 1

\* the other case: the table answered and the promise has resolved
C38_Resolved ==
    \E p \in Callers :
        /\ calls[p].pc = "settled"
        /\ calls[p].evaluated
        /\ calls[p].outcome.state = "resolved"
=============================================================================
